---- MODULE Spec2Model ----
(***************************************************************************)
(* ZK Battleship front end: the board and shot provers (libs/zk), the game *)
(* page (app/game/[id]/page.tsx) and the hooks it uses.                    *)
(*                                                                         *)
(* Conventions.  A JavaScript function that can throw is an operator that  *)
(* returns a record with an `ok` field: [ok |-> TRUE, ...] for a normal    *)
(* return and [ok |-> FALSE, error |-> <kind>] for a throw.  Arrays are    *)
(* 1-based sequences, so grid[y][x] of the source is grid[y+1][x+1] here.  *)
(***************************************************************************)
EXTENDS Integers, Sequences, FiniteSets, TLC

(***************************************************************************)
(* boardProver.ts                                                          *)
(***************************************************************************)
BOARD_SIZE == 10

SHIP_SIZES == <<5, 4, 3, 3, 2>>

\* The longest text ethers.utils.formatBytes32String encodes (31 bytes and
\* the terminating zero byte).
BYTES32_TEXT_MAX == 31

EmptyGrid == [y \in 1..BOARD_SIZE |-> [x \in 1..BOARD_SIZE |-> 0]]

\* board.grid.flat(): the cells row by row.
RECURSIVE FlatFrom(_, _)
FlatFrom(grid, k) ==
  IF k > Len(grid) THEN <<>> ELSE grid[k] \o FlatFrom(grid, k + 1)

Flat(grid) == FlatFrom(grid, 1)

\* board.grid.flat().filter(cell => cell === 1).length
CountShipCells(grid) ==
  LET f == Flat(grid) IN Cardinality({k \in 1..Len(f) : f[k] = 1})

\* serializeBoard: the flattened cells joined without a separator.  Every
\* cell prints as one character, so the string is the cell sequence.
serializeBoard(board) == Flat(board.grid)

\* ethers.utils.formatBytes32String: the text's bytes followed by zero bytes
\* up to 32; it throws for a text of more than 31 bytes.  A text is the
\* sequence of its character codes; salts are ASCII, one byte per character.
formatBytes32String(text) ==
  IF Len(text) > BYTES32_TEXT_MAX
  THEN [ok |-> FALSE, error |-> "bytes32_too_long"]
  ELSE [ok |-> TRUE, value |-> text \o [k \in 1..(32 - Len(text)) |-> 0]]

\* keccak256(solidityPack(['string','bytes32'], [boardString, bytes32 salt])).
\* The hash is modelled as injective: the digest is its preimage, tagged.
generateBoardCommitment(board, salt) ==
  LET enc == formatBytes32String(salt) IN
  IF ~enc.ok THEN enc
  ELSE [ok |-> TRUE, value |-> <<"keccak256", serializeBoard(board), enc.value>>]

\* The i-th cell of a ship (createBoard lines 68-69).
ShipCell(ship, i) ==
  IF ship.horizontal THEN <<ship.x + i, ship.y>> ELSE <<ship.x, ship.y + i>>

\* createBoard's inner loop for one ship, from cell i on.  A negative y reads
\* grid[y] = undefined and indexing it is a TypeError; a negative x reads
\* grid[y][x] = undefined, which is !== 0 and reported as an overlap.
RECURSIVE PlaceShip(_, _, _)
PlaceShip(grid, ship, i) ==
  IF i >= ship.size THEN [ok |-> TRUE, grid |-> grid]
  ELSE LET x == ShipCell(ship, i)[1]
           y == ShipCell(ship, i)[2]
       IN IF x >= BOARD_SIZE \/ y >= BOARD_SIZE
          THEN [ok |-> FALSE, error |-> "out_of_bounds", x |-> x, y |-> y]
          ELSE IF y < 0
          THEN [ok |-> FALSE, error |-> "type_error", x |-> x, y |-> y]
          ELSE IF x < 0 \/ grid[y + 1][x + 1] # 0
          THEN [ok |-> FALSE, error |-> "overlap", x |-> x, y |-> y]
          ELSE PlaceShip([grid EXCEPT ![y + 1][x + 1] = 1], ship, i + 1)

RECURSIVE PlaceShips(_, _, _)
PlaceShips(grid, ships, k) ==
  IF k > Len(ships) THEN [ok |-> TRUE, grid |-> grid]
  ELSE LET r == PlaceShip(grid, ships[k], 0)
       IN IF r.ok THEN PlaceShips(r.grid, ships, k + 1) ELSE r

\* createBoard without grid[y][x] = 1 of line 81: the ships are checked
\* against an empty grid and the grid returned is empty.
createBoardUnmarked(ships) ==
  LET r == PlaceShips(EmptyGrid, ships, 1)
  IN IF r.ok THEN [ok |-> TRUE, board |-> [ships |-> ships, grid |-> EmptyGrid]]
     ELSE r

createBoard(ships) ==
  LET r == PlaceShips(EmptyGrid, ships, 1)
  IN IF r.ok THEN [ok |-> TRUE, board |-> [ships |-> ships, grid |-> r.grid]]
     ELSE r

\* How many elements of a sequence equal v.
CountOf(seq, v) == Cardinality({k \in 1..Len(seq) : seq[k] = v})

validateBoard(board) ==
  IF Len(board.ships) # Len(SHIP_SIZES)
  THEN [ok |-> FALSE, error |-> "ship_count"]
  ELSE IF \E k \in 1..Len(SHIP_SIZES) :
            CountOf([j \in 1..Len(board.ships) |-> board.ships[j].size], SHIP_SIZES[k])
              # CountOf(SHIP_SIZES, SHIP_SIZES[k])
  THEN [ok |-> FALSE, error |-> "composition"]
  ELSE LET reconstructedBoard == createBoard(board.ships)
       IN IF ~reconstructedBoard.ok THEN reconstructedBoard
          ELSE IF CountShipCells(board.grid) # CountShipCells(reconstructedBoard.board.grid)
          THEN [ok |-> FALSE, error |-> "grid_mismatch"]
          ELSE [ok |-> TRUE]

\* The circuit cells filled column by column: boardCells[x * 10 + y].
BoardCellsColumnMajor(board) ==
  [k \in 1..(BOARD_SIZE * BOARD_SIZE) |->
     IF board.grid[((k - 1) % BOARD_SIZE) + 1][((k - 1) \div BOARD_SIZE) + 1] = 1
     THEN 1 ELSE 0]

\* The 100 circuit cells: boardCells[y * 10 + x] = 1 where grid[y][x] === 1.
BoardCells(board) ==
  [k \in 1..(BOARD_SIZE * BOARD_SIZE) |->
     IF board.grid[((k - 1) \div BOARD_SIZE) + 1][((k - 1) % BOARD_SIZE) + 1] = 1
     THEN 1 ELSE 0]

\* generateBoardProof up to its await (lines 136-179): the circuit input it
\* hands to generateProof, or the error it throws before building one.  A
\* validated board has five ships, so no dummy ship is added.
BoardProofInput(board, salt) ==
  LET valid == validateBoard(board) IN
  IF ~valid.ok THEN valid
  ELSE LET formattedShips ==
             [k \in 1..Len(board.ships) |->
                [size |-> board.ships[k].size, x |-> board.ships[k].x,
                 y |-> board.ships[k].y,
                 horizontal |-> IF board.ships[k].horizontal THEN 1 ELSE 0]]
           commitment == generateBoardCommitment(board, salt)
       IN IF ~commitment.ok THEN commitment
          ELSE [ok |-> TRUE,
                input |-> [circuit |-> "BOARD_PLACEMENT",
                           cells |-> BoardCells(board),
                           ships |-> formattedShips,
                           salt |-> salt,
                           board_commitment |-> commitment.value]]

(***************************************************************************)
(* shotProver.ts                                                           *)
(***************************************************************************)
\* checkShotResult reading board.grid[x][y].
checkShotResultTransposed(board, x, y) ==
  IF x < 0 \/ x >= 10 \/ y < 0 \/ y >= 10
  THEN [ok |-> FALSE, error |-> "shot_out_of_bounds"]
  ELSE [ok |-> TRUE, value |-> (board.grid[x + 1][y + 1] = 1)]

checkShotResult(board, x, y) ==
  IF x < 0 \/ x >= 10 \/ y < 0 \/ y >= 10
  THEN [ok |-> FALSE, error |-> "shot_out_of_bounds"]
  ELSE [ok |-> TRUE, value |-> (board.grid[y + 1][x + 1] = 1)]

\* generateShotProof without the comparison of lines 40-43: what the function
\* would hand to the prover if it trusted the caller's isHit.
ShotProofInputUnchecked(board, x, y, isHit, salt) ==
  LET actualResult == checkShotResult(board, x, y) IN
  IF ~actualResult.ok THEN actualResult
  ELSE LET boardCommitment == generateBoardCommitment(board, salt) IN
       IF ~boardCommitment.ok THEN boardCommitment
       ELSE [ok |-> TRUE,
             input |-> [circuit |-> "SHOT_RESULT",
                        cells |-> BoardCells(board),
                        shot_x |-> x,
                        shot_y |-> y,
                        is_hit |-> IF isHit THEN 1 ELSE 0,
                        salt |-> salt,
                        board_commitment |-> boardCommitment.value]]

\* generateShotProof up to its await: the circuit input it hands to
\* generateProof, or the error it throws before building one.
ShotProofInput(board, x, y, isHit, salt) ==
  LET actualResult == checkShotResult(board, x, y) IN
  IF ~actualResult.ok THEN actualResult
  ELSE IF actualResult.value # isHit
  THEN [ok |-> FALSE, error |-> "claim_mismatch"]
  ELSE LET boardCommitment == generateBoardCommitment(board, salt) IN
       IF ~boardCommitment.ok THEN boardCommitment
       ELSE [ok |-> TRUE,
             input |-> [circuit |-> "SHOT_RESULT",
                        cells |-> BoardCells(board),
                        shot_x |-> x,
                        shot_y |-> y,
                        is_hit |-> IF isHit THEN 1 ELSE 0,
                        salt |-> salt,
                        board_commitment |-> boardCommitment.value]]

createEmptyShotMap == [hits |-> <<>>, misses |-> <<>>]

addShot(shotMap, x, y, isHit) ==
  IF isHit
  THEN [hits |-> Append(shotMap.hits, <<x, y>>), misses |-> shotMap.misses]
  ELSE [hits |-> shotMap.hits, misses |-> Append(shotMap.misses, <<x, y>>)]

\* checkAllShipsSunk comparing with >= instead of ===.
checkAllShipsSunkAtLeast(board, shotMap) ==
  Len(shotMap.hits) >= CountShipCells(board.grid)

checkAllShipsSunk(board, shotMap) ==
  Len(shotMap.hits) = CountShipCells(board.grid)

(***************************************************************************)
(* Data of the model: the wallet account, the relay's players, the boards  *)
(* the placement component can hand over, the salts.                       *)
(***************************************************************************)
Null == "null"

Undefined == "undefined"

\* useContracts().address: the connected wallet, in checksum case.  The
\* relay reports players in lower case, so every comparison of the page
\* goes through toLowerCase.
account == "0xAbC"

Me == "0xabc"

Opp == "0xdef"

GameAddr == "0xGAME"

toLowerCase(s) ==
  CASE s = "0xAbC" -> "0xabc"
    [] s = "0xDeF" -> "0xdef"
    [] OTHER -> s

Ship(size, x, y, horizontal) ==
  [size |-> size, x |-> x, y |-> y, horizontal |-> horizontal]

\* Two layouts generateRandomBoard can return: rows 0,2,4,6,8 from the left
\* edge, and columns 9,7,5,3,1 from the top edge.  Cell (0,0) is a ship
\* cell of the first and water of the second.
FleetA ==
  << Ship(5, 0, 0, TRUE), Ship(4, 0, 2, TRUE), Ship(3, 0, 4, TRUE),
     Ship(3, 0, 6, TRUE), Ship(2, 0, 8, TRUE) >>

FleetB ==
  << Ship(5, 9, 0, FALSE), Ship(4, 7, 0, FALSE), Ship(3, 5, 0, FALSE),
     Ship(3, 3, 0, FALSE), Ship(2, 1, 0, FALSE) >>

\* What manual placement builds (ShipPlacement.tsx lines 35-41): ships of
\* sizes 5, 4, 3, 2, 1.
FleetManual ==
  << Ship(5, 0, 0, TRUE), Ship(4, 0, 2, TRUE), Ship(3, 0, 4, TRUE),
     Ship(2, 0, 6, TRUE), Ship(1, 0, 8, TRUE) >>

BoardA == createBoard(FleetA).board

BoardB == createBoard(FleetB).board

BoardManual == createBoard(FleetManual).board

NoBoard == [ships |-> <<>>, grid |-> <<>>]

\* generateSalt: hexlify(randomBytes(16)).slice(2), 32 hex characters.
\* "00112233445566778899aabbccddeeff"
GeneratedSalt ==
  << 48, 48, 49, 49, 50, 50, 51, 51, 52, 52, 53, 53, 54, 54, 55, 55, 56,
     56, 57, 57, 97, 97, 98, 98, 99, 99, 100, 100, 101, 101, 102, 102 >>

\* A salt of 31 characters, the longest formatBytes32String encodes.
ShortSalt == SubSeq(GeneratedSalt, 1, 31)

\* The empty string.
NoSalt == << >>

NoCommitment == <<>>

\* The number of ship cells of a valid fleet.
RECURSIVE SumFrom(_, _)
SumFrom(seq, k) == IF k > Len(seq) THEN 0 ELSE seq[k] + SumFrom(seq, k + 1)

FleetCells == SumFrom(SHIP_SIZES, 1)

\* Whether some ship of the board covers (x, y).
ShipCovers(board, x, y) ==
  \E k \in 1..Len(board.ships) :
    \E i \in 0..(board.ships[k].size - 1) : ShipCell(board.ships[k], i) = <<x, y>>

\* generateGameEndProof without the check of lines 145-149: what it would
\* hand to the prover for any shot map.
GameEndProofInputUnchecked(board, shotMap, salt) ==
  LET boardCommitment == generateBoardCommitment(board, salt)
      shotHistory ==
        [k \in 1..(BOARD_SIZE * BOARD_SIZE) |->
           IF \E h \in 1..Len(shotMap.hits) :
                shotMap.hits[h][2] * 10 + shotMap.hits[h][1] = k - 1
           THEN 1 ELSE 0]
  IN IF ~boardCommitment.ok THEN boardCommitment
     ELSE [ok |-> TRUE,
           input |-> [circuit |-> "GAME_END",
                      cells |-> BoardCells(board),
                      shot_history |-> shotHistory,
                      salt |-> salt,
                      board_commitment |-> boardCommitment.value,
                      shot_history_hash |-> <<"keccak256", shotHistory>>]]

\* generateGameEndProof up to its await: the circuit input it hands to
\* generateProof, or the error it throws before building one.
GameEndProofInput(board, shotMap, salt) ==
  IF ~checkAllShipsSunk(board, shotMap)
  THEN [ok |-> FALSE, error |-> "not_all_sunk"]
  ELSE LET boardCommitment == generateBoardCommitment(board, salt)
           shotHistory ==
             [k \in 1..(BOARD_SIZE * BOARD_SIZE) |->
                IF \E h \in 1..Len(shotMap.hits) :
                     shotMap.hits[h][2] * 10 + shotMap.hits[h][1] = k - 1
                THEN 1 ELSE 0]
       IN IF ~boardCommitment.ok THEN boardCommitment
          ELSE [ok |-> TRUE,
                input |-> [circuit |-> "GAME_END",
                           cells |-> BoardCells(board),
                           shot_history |-> shotHistory,
                           salt |-> salt,
                           board_commitment |-> boardCommitment.value,
                           shot_history_hash |-> <<"keccak256", shotHistory>>]]

(***************************************************************************)
(* The relay's messages (useGameSession.ts, GameEvent)                     *)
(***************************************************************************)
SessionStateMsg(status, players, currentTurn, gameContractAddress, win) ==
  [type |-> "session_state", status |-> status, players |-> players,
   currentTurn |-> currentTurn, gameContractAddress |-> gameContractAddress,
   winner |-> win]

BoardSubmittedMsg(player, allBoardsSubmitted) ==
  [type |-> "board_submitted", player |-> player,
   allBoardsSubmitted |-> allBoardsSubmitted]

ShotFiredMsg(player, x, y) ==
  [type |-> "shot_fired", player |-> player, x |-> x, y |-> y]

ShotResultMsg(player, x, y, isHit) ==
  [type |-> "shot_result", player |-> player, x |-> x, y |-> y, isHit |-> isHit]

GameOverMsg(win) == [type |-> "game_over", winner |-> win]

ChatMsg == [type |-> "chat"]

\* The cells the modelled players fire at: (0,0), a ship cell of BoardA and
\* water of BoardB.
PageCoords == {<<0, 0>>}

Snapshots ==
  { SessionStateMsg("CREATED", <<Me>>, Null, Undefined, Undefined),
    SessionStateMsg("WAITING", <<Me>>, Null, Undefined, Undefined),
    SessionStateMsg("SETUP", <<Me, Opp>>, Null, GameAddr, Undefined),
    SessionStateMsg("ACTIVE", <<Me, Opp>>, Me, GameAddr, Undefined),
    SessionStateMsg("ACTIVE", <<Me, Opp>>, Opp, GameAddr, Undefined),
    SessionStateMsg("ACTIVE", <<Me, Opp>>, Null, GameAddr, Undefined),
    SessionStateMsg("COMPLETED", <<Me, Opp>>, Null, GameAddr, Opp) }

SetupSnapshot == SessionStateMsg("SETUP", <<Me, Opp>>, Null, GameAddr, Undefined)

ActiveSnapshot(turn) == SessionStateMsg("ACTIVE", <<Me, Opp>>, turn, GameAddr, Undefined)

\* The relay's messages, by the part of the game they belong to.
SessionMsgs ==
  Snapshots
  \cup {BoardSubmittedMsg(Me, TRUE), BoardSubmittedMsg(Opp, TRUE),
        BoardSubmittedMsg(Opp, FALSE)}
  \cup {GameOverMsg(w) : w \in {Me, Opp}}

OwnShotMsgs ==
  {ActiveSnapshot(Me), ActiveSnapshot(Opp)}
  \cup {ShotResultMsg(Me, c[1], c[2], h) : c \in PageCoords, h \in BOOLEAN}

OppShotMsgs ==
  {SetupSnapshot}
  \cup {ShotFiredMsg(p, c[1], c[2]) : p \in {Me, Opp}, c \in PageCoords}
  \cup {ShotResultMsg(Opp, c[1], c[2], h) : c \in PageCoords, h \in BOOLEAN}

SinkMsgs ==
  {SetupSnapshot, ActiveSnapshot(Opp)}
  \cup {ShotFiredMsg(Opp, c[1], c[2]) : c \in PageCoords}

BothShotMsgs ==
  {SetupSnapshot, ActiveSnapshot(Me)}
  \cup {ShotFiredMsg(Opp, c[1], c[2]) : c \in PageCoords}

NoEvent == [type |-> "none"]

NoSession ==
  [status |-> Null, players |-> <<>>, currentTurn |-> Null,
   gameContractAddress |-> Undefined]

\* What the placement component can hand to onComplete, and the salts the
\* page computes commitments with.  GeneratedSalt is what generateSalt
\* returns; generateBoardCommitment throws for it, so with it
\* handleBoardComplete never stores a board.  ShortSalt is not a value of
\* generateSalt: it stands for a salt the encoder accepts, and with it the
\* model follows the handlers past generateBoardCommitment.
PlacementBoards == {BoardA, BoardB, BoardManual}

PageSalts == {GeneratedSalt, ShortSalt}

(***************************************************************************)
(* Bounds                                                                  *)
(***************************************************************************)
\* The longest hit list and miss list of a shot map.
MaxShots == 2

\* Invocations of one handler that are awaiting a promise at a time.
MaxBoardCalls == 1

MaxMakeShotCalls == 2

MaxOppShotCalls == 1

MaxForfeitCalls == 1
\* WebSockets created, pings sent, joinSession calls awaiting the backend
MaxSockets == 3
MaxPings == 2
MaxJoinCalls == 1
\* how often generateRandomBoard starts over
MaxRestarts == 1

(***************************************************************************)
(* State                                                                   *)
(***************************************************************************)
VARIABLES
  \* GamePage state (page.tsx lines 69-87)
  gamePhase, gameAddress, opponent, isPlayerTurn, winner,
  playerBoard, playerBoardCommitment, playerBoardSalt,
  shotsAtPlayer, shotsAtOpponent,
  isSubmittingBoard, isMakingShot, isProcessingShot,
  \* useGameSession state: the last snapshot, and the events list, of which
  \* the page reads only whether it is empty and its last element
  sessionState, latestEvent,
  \* whether a dependency of the session-state effect, of the events effect,
  \* was set since the effect last ran
  sessionDirty, eventsDirty,
  \* the invocations of the async handlers that are awaiting a promise, each
  \* with the values its closure captured
  boardCalls, makeShotCalls, oppShotCalls, forfeitCalls,
  \* shotProver.ts called on its own: the arguments of generateShotProof, how
  \* far the call got, the circuit inputs handed to generateProof; and a
  \* shot map with the last addShot applied to it
  shotArgs, shotProof, proofRequests, shotMap, lastShot,
  \* useGameSession's channel (useGameSession.ts): the sockets created so far
  \* with their readyState, webSocketRef and heartbeatIntervalRef (0 for
  \* null), the intervals created so far, the sockets pinged, isConnected,
  \* sessionId, whether the component is mounted, and the joinSession calls
  \* awaiting the backend
  sockets, webSocketRef, heartbeatIntervalRef, timers, pings,
  isConnected, sessionId, mounted, joinCalls,
  \* boardProver.ts called on its own: the argument of createBoard, what
  \* createBoard returned or threw, what validateBoard returned or threw
  \* for that board, and what it returned or threw for a board made of the
  \* placements and a grid given by the caller
  placements, created, validated, checked,
  \* generateRandomBoard: where the call is, the ships and the temporary
  \* grid of the current run, the attempts made for the ship being placed,
  \* how often the placement was started over, and the board returned
  randomRun,
  \* ShipPlacement's state (ShipPlacement.tsx lines 28-50) and the board it
  \* handed to onComplete
  placementBoard, shipsToPlace, placingShip, hoverPosition, isHorizontal,
  completedBoard,
  \* board-utils called on its own: the board object handed to
  \* addShipToBoard, and the ship and outcome of the last call
  utilBoard, utilAdded,
  \* generateBoardCommitment called on its own: the calls made, each with
  \* its arguments and what it returned or threw
  committed,
  \* the proof generators called on their own: the last call, with its
  \* board and salt, its other arguments, and the circuit input it built or
  \* the error it threw
  circuitInput,
  \* checkShotResult and checkAllShipsSunk called on their own: the board,
  \* the shot map grown with addShot, and what the last call of each
  \* function returned or threw
  verifier,
  \* InviteModal: its props isOpen and playerAddress, its state, the
  \* createInvite requests it issued, and the dependencies its effects last
  \* ran with
  inviteModal

pageVars ==
  << gamePhase, gameAddress, opponent, isPlayerTurn, winner,
     playerBoard, playerBoardCommitment, playerBoardSalt,
     shotsAtPlayer, shotsAtOpponent,
     isSubmittingBoard, isMakingShot, isProcessingShot,
     sessionState, latestEvent, sessionDirty, eventsDirty,
     boardCalls, makeShotCalls, oppShotCalls, forfeitCalls >>

proverVars == << shotArgs, shotProof, proofRequests, shotMap, lastShot >>

channelVars ==
  << sockets, webSocketRef, heartbeatIntervalRef, timers, pings,
     isConnected, sessionId, mounted, joinCalls >>

placementVars ==
  << placementBoard, shipsToPlace, placingShip, hoverPosition, isHorizontal,
     completedBoard, utilBoard, utilAdded, committed, circuitInput, verifier,
                  inviteModal >>

builderVars ==
  << placements, created, validated, checked, randomRun, placementVars >>

vars == << pageVars, proverVars, channelVars, builderVars >>

GamePhase ==
  [CONNECTING |-> 0, WAITING_FOR_OPPONENT |-> 1, PLACING_SHIPS |-> 2,
   WAITING_FOR_OPPONENT_BOARD |-> 3, PLAYING |-> 4, GAME_OVER |-> 5]

\* seq without its i-th element.
RemoveAt(seq, i) == SubSeq(seq, 1, i - 1) \o SubSeq(seq, i + 1, Len(seq))

PageInit ==
  /\ gamePhase = "CONNECTING"
  /\ gameAddress = Null
  /\ opponent = Null
  /\ isPlayerTurn = FALSE
  /\ winner = Null
  /\ playerBoard = NoBoard
  /\ playerBoardCommitment = NoCommitment
  /\ playerBoardSalt = NoSalt
  /\ shotsAtPlayer = createEmptyShotMap
  /\ shotsAtOpponent = createEmptyShotMap
  /\ isSubmittingBoard = FALSE
  /\ isMakingShot = FALSE
  /\ isProcessingShot = FALSE
  /\ sessionState = NoSession
  /\ latestEvent = NoEvent
  /\ sessionDirty = FALSE
  /\ eventsDirty = FALSE
  /\ boardCalls = <<>>
  /\ makeShotCalls = <<>>
  /\ oppShotCalls = <<>>
  /\ forfeitCalls = <<>>

(***************************************************************************)
(* useGameSession: the WebSocket message handler (lines 633-658)           *)
(***************************************************************************)
\* The snapshot setSessionState stores: the message's winner is not copied.
StoredSession(data) ==
  [status |-> data.status, players |-> data.players,
   currentTurn |-> data.currentTurn,
   gameContractAddress |-> data.gameContractAddress]

WsMessage(data) ==
  /\ sessionState' = IF data.type = "session_state" THEN StoredSession(data)
                     ELSE sessionState
  /\ sessionDirty' = (sessionDirty \/ data.type = "session_state")
  /\ latestEvent' = data
  /\ eventsDirty' = TRUE
  /\ UNCHANGED << proverVars, channelVars, builderVars, gamePhase, gameAddress, opponent, isPlayerTurn, winner,
                  playerBoard, playerBoardCommitment, playerBoardSalt,
                  shotsAtPlayer, shotsAtOpponent,
                  isSubmittingBoard, isMakingShot, isProcessingShot,
                  boardCalls, makeShotCalls, oppShotCalls, forfeitCalls >>

(***************************************************************************)
(* GamePage: the session-state effect (lines 105-158)                      *)
(***************************************************************************)
\* extendedState.winner: a field the stored snapshot may lack.
SessionWinnerField(s) ==
  IF "winner" \in DOMAIN s THEN s.winner ELSE Undefined

SessionGameAddress(s, cur) ==
  IF s.gameContractAddress # Undefined THEN s.gameContractAddress ELSE cur

\* players.find(p => p.toLowerCase() !== account.toLowerCase()) || null
SessionOpponent(s, cur) ==
  IF Len(s.players) = 2
  THEN LET others == {k \in 1..Len(s.players) :
                        toLowerCase(s.players[k]) # toLowerCase(account)}
       IN IF others = {} THEN Null
          ELSE s.players[CHOOSE k \in others : \A j \in others : k <= j]
  ELSE cur

SessionPhase(s, board, cur) ==
  CASE s.status = "WAITING" -> "WAITING_FOR_OPPONENT"
    [] s.status = "SETUP" ->
         IF board # NoBoard THEN "WAITING_FOR_OPPONENT_BOARD" ELSE "PLACING_SHIPS"
    [] s.status = "ACTIVE" -> "PLAYING"
    [] s.status = "COMPLETED" -> "GAME_OVER"
    [] OTHER -> cur

SessionTurn(s, cur) ==
  IF s.status = "ACTIVE" /\ s.currentTurn # Null
  THEN toLowerCase(s.currentTurn) = toLowerCase(account)
  ELSE cur

SessionWinner(s, cur) ==
  IF s.status = "COMPLETED" /\ SessionWinnerField(s) # Undefined
  THEN SessionWinnerField(s)
  ELSE cur

(***************************************************************************)
(* GamePage: the events effect (lines 161-232), which applies the last     *)
(* element of the events list                                              *)
(***************************************************************************)
\* The comparison of lines 168, 181 and 193 without its toLowerCase calls.
IsOwnCaseSensitive(e) == e.player = account

IsOwn(e) == toLowerCase(e.player) = toLowerCase(account)

EventPhase(e, cur) ==
  CASE e.type = "board_submitted" ->
         IF IsOwn(e) THEN "WAITING_FOR_OPPONENT_BOARD"
         ELSE IF e.allBoardsSubmitted THEN "PLAYING"
         ELSE cur
    [] e.type = "game_over" -> "GAME_OVER"
    [] OTHER -> cur

EventWinner(e, cur) == IF e.type = "game_over" THEN e.winner ELSE cur

EventShotsAtOpponent(e, cur) ==
  IF e.type = "shot_result" /\ IsOwn(e) THEN addShot(cur, e.x, e.y, e.isHit)
  ELSE cur

EventShotsAtPlayer(e, cur) ==
  IF e.type = "shot_result" /\ ~IsOwn(e) THEN addShot(cur, e.x, e.y, e.isHit)
  ELSE cur

\* The shot_result branch without setIsMakingShot(false) of line 208.
EventIsMakingShotKept(e, cur) == cur

EventIsMakingShot(e, cur) ==
  IF e.type = "shot_result" /\ IsOwn(e) THEN FALSE ELSE cur

\* shot_fired by the other player: the effect calls handleOpponentShot.
IsOpponentShotFired(e) == e.type = "shot_fired" /\ ~IsOwn(e)

(***************************************************************************)
(* GamePage: handleOpponentShot (lines 297-341)                            *)
(***************************************************************************)
\* Line 298: the early return (account is the connected wallet).
OpponentShotReady(address, board, salt) ==
  address # Null /\ board # NoBoard /\ salt # NoSalt

\* Line 305.
OpponentShotIsHit(board, x, y) == checkShotResult(board, x, y)

\* The invocation up to its first await (generateShotProof's generateProof):
\* the record of the pending invocation, or ok = FALSE when it returned early
\* or threw before awaiting.
OpponentShotCall(e, address, board, salt, commitment, shots) ==
  IF ~OpponentShotReady(address, board, salt) THEN [ok |-> FALSE, early |-> TRUE]
  ELSE LET isHit == OpponentShotIsHit(board, e.x, e.y) IN
       IF ~isHit.ok THEN [ok |-> FALSE, early |-> FALSE]
       ELSE LET proof == ShotProofInput(board, e.x, e.y, isHit.value, salt) IN
            IF ~proof.ok THEN [ok |-> FALSE, early |-> FALSE]
            ELSE [ok |-> TRUE,
                  call |-> [pc |-> "shot_proof", x |-> e.x, y |-> e.y,
                            isHit |-> isHit.value, gameAddress |-> address,
                            board |-> board, salt |-> salt,
                            commitment |-> commitment, shotMap |-> shots]]

\* isProcessingShot after the effect handled e: set by the effect before the
\* call (line 183), cleared by the handler's finally unless it returned early.
EventIsProcessingShot(e, call, cur) ==
  IF IsOpponentShotFired(e)
  THEN (call.ok \/ call.early)
  ELSE IF e.type = "shot_result" /\ ~IsOwn(e) THEN FALSE
  ELSE cur

(***************************************************************************)
(* One React commit: the effects whose dependencies changed run against    *)
(* the rendered state, the session-state effect first.  Their state        *)
(* updates are queued in call order, so where both set a field the events  *)
(* effect's value stands.  cap bounds the shot lists.                       *)
(***************************************************************************)
Commit(cap) ==
  /\ sessionDirty \/ eventsDirty
  /\ LET s == sessionState
         e == latestEvent
         runSession == sessionDirty /\ s # NoSession
         runEvents == eventsDirty /\ e # NoEvent
         call == IF runEvents /\ IsOpponentShotFired(e)
                 THEN OpponentShotCall(e, gameAddress, playerBoard, playerBoardSalt,
                                       playerBoardCommitment, shotsAtPlayer)
                 ELSE [ok |-> FALSE, early |-> FALSE]
         phase == IF runSession THEN SessionPhase(s, playerBoard, gamePhase)
                  ELSE gamePhase
         win == IF runSession THEN SessionWinner(s, winner) ELSE winner
     IN /\ gamePhase' = IF runEvents THEN EventPhase(e, phase) ELSE phase
        /\ winner' = IF runEvents THEN EventWinner(e, win) ELSE win
        /\ gameAddress' = IF runSession THEN SessionGameAddress(s, gameAddress)
                          ELSE gameAddress
        /\ opponent' = IF runSession THEN SessionOpponent(s, opponent) ELSE opponent
        /\ isPlayerTurn' = IF runSession THEN SessionTurn(s, isPlayerTurn)
                           ELSE isPlayerTurn
        /\ shotsAtOpponent' = IF runEvents THEN EventShotsAtOpponent(e, shotsAtOpponent)
                              ELSE shotsAtOpponent
        /\ shotsAtPlayer' = IF runEvents THEN EventShotsAtPlayer(e, shotsAtPlayer)
                            ELSE shotsAtPlayer
        /\ isMakingShot' = IF runEvents THEN EventIsMakingShot(e, isMakingShot)
                           ELSE isMakingShot
        /\ isProcessingShot' = IF runEvents
                               THEN EventIsProcessingShot(e, call, isProcessingShot)
                               ELSE isProcessingShot
        /\ oppShotCalls' = IF call.ok THEN Append(oppShotCalls, call.call)
                           ELSE oppShotCalls
        /\ Len(oppShotCalls') <= MaxOppShotCalls
        /\ sessionDirty' = FALSE
        /\ eventsDirty' = (runEvents /\ e.type = "shot_result")
  /\ Len(shotsAtOpponent'.hits) <= cap /\ Len(shotsAtOpponent'.misses) <= cap
  /\ Len(shotsAtPlayer'.hits) <= cap /\ Len(shotsAtPlayer'.misses) <= cap
  /\ UNCHANGED << proverVars, channelVars, builderVars, playerBoard, playerBoardCommitment, playerBoardSalt,
                  isSubmittingBoard, sessionState, latestEvent,
                  boardCalls, makeShotCalls, forfeitCalls >>

(***************************************************************************)
(* GamePage: handleOpponentShot after its awaits                           *)
(***************************************************************************)
\* generateShotProof settled (line 308).
OppShotProofResolved(i, ok) ==
  /\ i \in 1..Len(oppShotCalls)
  /\ oppShotCalls[i].pc = "shot_proof"
  /\ IF ok
     THEN /\ oppShotCalls' = [oppShotCalls EXCEPT ![i].pc = "submit_result"]
          /\ UNCHANGED isProcessingShot
     ELSE /\ oppShotCalls' = RemoveAt(oppShotCalls, i)
          /\ isProcessingShot' = FALSE
  /\ UNCHANGED << proverVars, channelVars, builderVars, gamePhase, gameAddress, opponent, isPlayerTurn, winner,
                  playerBoard, playerBoardCommitment, playerBoardSalt,
                  shotsAtPlayer, shotsAtOpponent, isSubmittingBoard, isMakingShot,
                  sessionState, latestEvent, sessionDirty, eventsDirty,
                  boardCalls, makeShotCalls, forfeitCalls >>

\* contractSubmitShotResult settled (line 311); lines 313-334 run up to the
\* next await.
OppShotSubmitResolved(i, ok, cap) ==
  /\ i \in 1..Len(oppShotCalls)
  /\ oppShotCalls[i].pc = "submit_result"
  /\ LET c == oppShotCalls[i]
         newShotMap == addShot(c.shotMap, c.x, c.y, c.isHit)
         allSunk == c.isHit /\ c.commitment # NoCommitment
                    /\ checkAllShipsSunk(c.board, newShotMap)
         endProof == GameEndProofInput(c.board, newShotMap, c.salt)
     IN IF ok
        THEN /\ Len(newShotMap.hits) <= cap /\ Len(newShotMap.misses) <= cap
             /\ isPlayerTurn' = TRUE
             /\ shotsAtPlayer' = newShotMap
             /\ eventsDirty' = TRUE
             /\ IF allSunk /\ endProof.ok
                THEN /\ oppShotCalls' =
                          [oppShotCalls EXCEPT ![i].pc = "end_proof",
                                               ![i].shotMap = newShotMap]
                     /\ UNCHANGED isProcessingShot
                ELSE /\ oppShotCalls' = RemoveAt(oppShotCalls, i)
                     /\ isProcessingShot' = FALSE
        ELSE /\ oppShotCalls' = RemoveAt(oppShotCalls, i)
             /\ isProcessingShot' = FALSE
             /\ UNCHANGED << isPlayerTurn, shotsAtPlayer, eventsDirty >>
  /\ UNCHANGED << proverVars, channelVars, builderVars, gamePhase, gameAddress, opponent, winner,
                  playerBoard, playerBoardCommitment, playerBoardSalt,
                  shotsAtOpponent, isSubmittingBoard, isMakingShot,
                  sessionState, latestEvent, sessionDirty,
                  boardCalls, makeShotCalls, forfeitCalls >>

\* generateGameEndProof settled (line 326).
GameEndProofResolved(i, ok) ==
  /\ i \in 1..Len(oppShotCalls)
  /\ oppShotCalls[i].pc = "end_proof"
  /\ IF ok
     THEN /\ oppShotCalls' = [oppShotCalls EXCEPT ![i].pc = "verify_end"]
          /\ UNCHANGED isProcessingShot
     ELSE /\ oppShotCalls' = RemoveAt(oppShotCalls, i)
          /\ isProcessingShot' = FALSE
  /\ UNCHANGED << proverVars, channelVars, builderVars, gamePhase, gameAddress, opponent, isPlayerTurn, winner,
                  playerBoard, playerBoardCommitment, playerBoardSalt,
                  shotsAtPlayer, shotsAtOpponent, isSubmittingBoard, isMakingShot,
                  sessionState, latestEvent, sessionDirty, eventsDirty,
                  boardCalls, makeShotCalls, forfeitCalls >>

\* contractVerifyGameEnd settled (line 329).
VerifyGameEndResolved(i, ok) ==
  /\ i \in 1..Len(oppShotCalls)
  /\ oppShotCalls[i].pc = "verify_end"
  /\ oppShotCalls' = RemoveAt(oppShotCalls, i)
  /\ isProcessingShot' = FALSE
  /\ gamePhase' = IF ok THEN "GAME_OVER" ELSE gamePhase
  /\ UNCHANGED << proverVars, channelVars, builderVars, gameAddress, opponent, isPlayerTurn, winner,
                  playerBoard, playerBoardCommitment, playerBoardSalt,
                  shotsAtPlayer, shotsAtOpponent, isSubmittingBoard, isMakingShot,
                  sessionState, latestEvent, sessionDirty, eventsDirty,
                  boardCalls, makeShotCalls, forfeitCalls >>

(***************************************************************************)
(* GamePage: handleBoardComplete (lines 235-273).  ShipPlacement, which    *)
(* calls it, is rendered in PLACING_SHIPS only (lines 382-395).            *)
(***************************************************************************)
\* Lines 236-252, up to the await of generateBoardProof: the pending
\* invocation, or ok = FALSE when the handler returned at line 238, or
\* generateBoardCommitment or validateBoard threw.
BoardCompleteCall(board, salt, address) ==
  IF address = Null THEN [ok |-> FALSE]
  ELSE LET commitment == generateBoardCommitment(board, salt) IN
       IF ~commitment.ok THEN [ok |-> FALSE]
       ELSE IF ~validateBoard(board).ok THEN [ok |-> FALSE]
       ELSE [ok |-> TRUE,
             call |-> [pc |-> "board_proof", board |-> board, salt |-> salt,
                       commitment |-> commitment.value, gameAddress |-> address]]

\* handleBoardComplete with at most cap invocations awaiting a promise.
HandleBoardCompleteUpTo(board, salt, cap) ==
  /\ gamePhase = "PLACING_SHIPS"
  /\ Len(boardCalls) < cap
  /\ LET r == BoardCompleteCall(board, salt, gameAddress)
     IN IF r.ok
        THEN /\ boardCalls' = Append(boardCalls, r.call)
             /\ isSubmittingBoard' = TRUE
        ELSE \* catch and finally: isSubmittingBoard is false again
             /\ isSubmittingBoard' = FALSE
             /\ UNCHANGED boardCalls
  /\ UNCHANGED << proverVars, channelVars, builderVars, gamePhase, gameAddress, opponent, isPlayerTurn, winner,
                  playerBoard, playerBoardCommitment, playerBoardSalt,
                  shotsAtPlayer, shotsAtOpponent, isMakingShot, isProcessingShot,
                  sessionState, latestEvent, sessionDirty, eventsDirty,
                  makeShotCalls, oppShotCalls, forfeitCalls >>

HandleBoardComplete(board, salt) ==
  HandleBoardCompleteUpTo(board, salt, MaxBoardCalls)

\* generateBoardProof settled (line 252); lines 255-260 store the board.
BoardProofResolved(i, ok) ==
  /\ i \in 1..Len(boardCalls)
  /\ boardCalls[i].pc = "board_proof"
  /\ LET c == boardCalls[i]
     IN IF ok
        THEN /\ playerBoard' = c.board
             /\ playerBoardCommitment' = c.commitment
             /\ playerBoardSalt' = c.salt
             /\ sessionDirty' = (sessionDirty \/ playerBoard # c.board)
             /\ boardCalls' = [boardCalls EXCEPT ![i].pc = "submit_board"]
             /\ UNCHANGED isSubmittingBoard
        ELSE /\ boardCalls' = RemoveAt(boardCalls, i)
             /\ isSubmittingBoard' = FALSE
             /\ UNCHANGED << playerBoard, playerBoardCommitment, playerBoardSalt,
                             sessionDirty >>
  /\ UNCHANGED << proverVars, channelVars, builderVars, gamePhase, gameAddress, opponent, isPlayerTurn, winner,
                  shotsAtPlayer, shotsAtOpponent, isMakingShot, isProcessingShot,
                  sessionState, latestEvent, eventsDirty,
                  makeShotCalls, oppShotCalls, forfeitCalls >>

\* contractSubmitBoard settled (line 260).
BoardLedgerResolved(i, ok) ==
  /\ i \in 1..Len(boardCalls)
  /\ boardCalls[i].pc = "submit_board"
  /\ IF ok
     THEN /\ boardCalls' = [boardCalls EXCEPT ![i].pc = "session_submit"]
          /\ UNCHANGED isSubmittingBoard
     ELSE /\ boardCalls' = RemoveAt(boardCalls, i)
          /\ isSubmittingBoard' = FALSE
  /\ UNCHANGED << proverVars, channelVars, builderVars, gamePhase, gameAddress, opponent, isPlayerTurn, winner,
                  playerBoard, playerBoardCommitment, playerBoardSalt,
                  shotsAtPlayer, shotsAtOpponent, isMakingShot, isProcessingShot,
                  sessionState, latestEvent, sessionDirty, eventsDirty,
                  makeShotCalls, oppShotCalls, forfeitCalls >>

\* sessionSubmitBoard settled (line 263).
BoardRelayResolved(i, ok) ==
  /\ i \in 1..Len(boardCalls)
  /\ boardCalls[i].pc = "session_submit"
  /\ boardCalls' = RemoveAt(boardCalls, i)
  /\ isSubmittingBoard' = FALSE
  /\ gamePhase' = IF ok THEN "WAITING_FOR_OPPONENT_BOARD" ELSE gamePhase
  /\ UNCHANGED << proverVars, channelVars, builderVars, gameAddress, opponent, isPlayerTurn, winner,
                  playerBoard, playerBoardCommitment, playerBoardSalt,
                  shotsAtPlayer, shotsAtOpponent, isMakingShot, isProcessingShot,
                  sessionState, latestEvent, sessionDirty, eventsDirty,
                  makeShotCalls, oppShotCalls, forfeitCalls >>

(***************************************************************************)
(* GamePage: handleMakeShot (lines 276-294), the opponent board's          *)
(* onCellClick, rendered in PLAYING (lines 418-446)                        *)
(***************************************************************************)
\* Line 277: whether the handler goes on.
MakeShotAllowed(address, turn, making) == address # Null /\ turn /\ ~making

HandleMakeShot(x, y) ==
  /\ gamePhase = "PLAYING"
  /\ MakeShotAllowed(gameAddress, isPlayerTurn, isMakingShot)
  /\ Len(makeShotCalls) < MaxMakeShotCalls
  /\ isMakingShot' = TRUE
  /\ makeShotCalls' = Append(makeShotCalls, [gameAddress |-> gameAddress, x |-> x, y |-> y])
  /\ UNCHANGED << proverVars, channelVars, builderVars, gamePhase, gameAddress, opponent, isPlayerTurn, winner,
                  playerBoard, playerBoardCommitment, playerBoardSalt,
                  shotsAtPlayer, shotsAtOpponent, isSubmittingBoard, isProcessingShot,
                  sessionState, latestEvent, sessionDirty, eventsDirty,
                  boardCalls, oppShotCalls, forfeitCalls >>

\* handleMakeShot with setIsPlayerTurn(false) in a finally block instead of
\* after the await: the turn is given up whether the ledger call failed or not.
MakeShotResolvedRevoking(i, ok) ==
  /\ i \in 1..Len(makeShotCalls)
  /\ makeShotCalls' = RemoveAt(makeShotCalls, i)
  /\ isPlayerTurn' = FALSE
  /\ isMakingShot' = IF ok THEN isMakingShot ELSE FALSE
  /\ UNCHANGED << proverVars, channelVars, builderVars, gamePhase, gameAddress, opponent, winner,
                  playerBoard, playerBoardCommitment, playerBoardSalt,
                  shotsAtPlayer, shotsAtOpponent, isSubmittingBoard, isProcessingShot,
                  sessionState, latestEvent, sessionDirty, eventsDirty,
                  boardCalls, oppShotCalls, forfeitCalls >>

\* contractMakeShot settled (line 284).
MakeShotResolved(i, ok) ==
  /\ i \in 1..Len(makeShotCalls)
  /\ makeShotCalls' = RemoveAt(makeShotCalls, i)
  /\ isPlayerTurn' = IF ok THEN FALSE ELSE isPlayerTurn
  /\ isMakingShot' = IF ok THEN isMakingShot ELSE FALSE
  /\ UNCHANGED << proverVars, channelVars, builderVars, gamePhase, gameAddress, opponent, winner,
                  playerBoard, playerBoardCommitment, playerBoardSalt,
                  shotsAtPlayer, shotsAtOpponent, isSubmittingBoard, isProcessingShot,
                  sessionState, latestEvent, sessionDirty, eventsDirty,
                  boardCalls, oppShotCalls, forfeitCalls >>

(***************************************************************************)
(* GamePage: handleForfeit (lines 344-357), the Forfeit button, rendered   *)
(* in PLAYING (lines 451-456)                                              *)
(***************************************************************************)
HandleForfeit(confirmed) ==
  /\ gamePhase = "PLAYING"
  /\ gameAddress # Null
  /\ confirmed
  /\ Len(forfeitCalls) < MaxForfeitCalls
  /\ forfeitCalls' = Append(forfeitCalls, [gameAddress |-> gameAddress])
  /\ UNCHANGED << proverVars, channelVars, builderVars, gamePhase, gameAddress, opponent, isPlayerTurn, winner,
                  playerBoard, playerBoardCommitment, playerBoardSalt,
                  shotsAtPlayer, shotsAtOpponent,
                  isSubmittingBoard, isMakingShot, isProcessingShot,
                  sessionState, latestEvent, sessionDirty, eventsDirty,
                  boardCalls, makeShotCalls, oppShotCalls >>

\* contractForfeit settled (line 349).
ForfeitResolved(i, ok) ==
  /\ i \in 1..Len(forfeitCalls)
  /\ forfeitCalls' = RemoveAt(forfeitCalls, i)
  /\ gamePhase' = IF ok THEN "GAME_OVER" ELSE gamePhase
  /\ UNCHANGED << proverVars, channelVars, builderVars, gameAddress, opponent, isPlayerTurn, winner,
                  playerBoard, playerBoardCommitment, playerBoardSalt,
                  shotsAtPlayer, shotsAtOpponent,
                  isSubmittingBoard, isMakingShot, isProcessingShot,
                  sessionState, latestEvent, sessionDirty, eventsDirty,
                  boardCalls, makeShotCalls, oppShotCalls >>

(***************************************************************************)
(* Specifications of the game page.  The relay can send any message of a   *)
(* set at any time, also twice and out of order; each specification gives  *)
(* the relay the messages of one part of the game and has the handlers     *)
(* that part needs.                                                        *)
(***************************************************************************)
Relay(msgs) == \E data \in msgs : WsMessage(data)

BoardComplete ==
  \E board \in PlacementBoards, salt \in PageSalts : HandleBoardComplete(board, salt)

BoardSteps ==
  \E i \in 1..MaxBoardCalls, ok \in BOOLEAN :
    \/ BoardProofResolved(i, ok)
    \/ BoardLedgerResolved(i, ok)
    \/ BoardRelayResolved(i, ok)

MakeShot == \E c \in PageCoords : HandleMakeShot(c[1], c[2])

MakeShotSteps == \E i \in 1..MaxMakeShotCalls, ok \in BOOLEAN : MakeShotResolved(i, ok)

Forfeit == \E confirmed \in BOOLEAN : HandleForfeit(confirmed)

ForfeitSteps == \E i \in 1..MaxForfeitCalls, ok \in BOOLEAN : ForfeitResolved(i, ok)

OppShotSteps(cap) ==
  \E i \in 1..MaxOppShotCalls, ok \in BOOLEAN :
    \/ OppShotProofResolved(i, ok)
    \/ OppShotSubmitResolved(i, ok, cap)

GameEndSteps ==
  \E i \in 1..MaxOppShotCalls, ok \in BOOLEAN :
    \/ GameEndProofResolved(i, ok)
    \/ VerifyGameEndResolved(i, ok)

ProverIdle ==
  /\ shotArgs = [board |-> NoBoard, x |-> 0, y |-> 0, isHit |-> FALSE, salt |-> NoSalt]
  /\ shotProof = [pc |-> "idle"]
  /\ proofRequests = <<>>
  /\ shotMap = createEmptyShotMap
  /\ lastShot = <<>>

(***************************************************************************)
(* board-utils (noirConfig.ts lines 74-331) and ShipPlacement.tsx          *)
(***************************************************************************)
\* enum ShipType in the order of shipsToPlace (ShipPlacement.tsx 35-41).
ShipTypes == <<5, 4, 3, 2, 1>>

createEmptyBoard == [ships |-> <<>>, grid |-> EmptyGrid]

\* placingShip = null and hoverPosition = null.
NoShip == [size |-> 0, x |-> 0, y |-> 0, horizontal |-> TRUE]

NoHover == <<>>

\* isValidPlacement lines 231-241: the ship lies in the grid.
PlacementInBounds(ship) ==
  IF ship.horizontal
  THEN ~(ship.x < 0 \/ ship.x + ship.size > BOARD_SIZE
         \/ ship.y < 0 \/ ship.y >= BOARD_SIZE)
  ELSE ~(ship.x < 0 \/ ship.x >= BOARD_SIZE
         \/ ship.y < 0 \/ ship.y + ship.size > BOARD_SIZE)

\* isValidPlacement with the bounds check only.
isValidPlacementBoundsOnly(b, ship) == PlacementInBounds(ship)

\* isValidPlacement (lines 230-267): in the grid, and no ship on a cell of
\* the ship or on a cell around one.
isValidPlacement(b, ship) ==
  /\ PlacementInBounds(ship)
  /\ \A i \in 0..(ship.size - 1), dx \in -1..1, dy \in -1..1 :
       LET checkX == ShipCell(ship, i)[1] + dx
           checkY == ShipCell(ship, i)[2] + dy
       IN (checkX < 0 \/ checkX >= BOARD_SIZE \/ checkY < 0 \/ checkY >= BOARD_SIZE)
            \/ b.grid[checkY + 1][checkX + 1] # 1

\* addShipToBoard (lines 275-296): a new board object, or a throw.
addShipToBoard(b, ship) ==
  IF ~isValidPlacement(b, ship)
  THEN [ok |-> FALSE, error |-> "invalid_placement"]
  ELSE [ok |-> TRUE,
        board |-> [ships |-> Append(b.ships, ship),
                   grid |-> [r \in 1..BOARD_SIZE |-> [c \in 1..BOARD_SIZE |->
                      IF \E i \in 0..(ship.size - 1) : ShipCell(ship, i) = <<c - 1, r - 1>>
                      THEN 1 ELSE b.grid[r][c]]]]]

\* The effect of lines 59-71: with ships left and none being placed, the
\* next one is picked up at (0,0).
StartPlacing(toPlace, placing, horizontal) ==
  IF Len(toPlace) > 0 /\ placing = NoShip
  THEN Ship(toPlace[1], 0, 0, horizontal) ELSE placing

\* InviteModal after mounting with isOpen false: nothing created, no link,
\* no error (InviteModal.tsx lines 20-23); both effects ran once and did
\* nothing.
NoAddress == ""

ModalMounted ==
  [isOpen |-> FALSE, playerAddress |-> NoAddress,
   isCreating |-> FALSE, inviteLink |-> Null, error |-> Null,
   copySuccess |-> FALSE, copyTimers |-> 0, calls |-> << >>,
   createDeps |-> << FALSE, Null, FALSE >>, resetDeps |-> FALSE]

\* ShipPlacement after mounting without an initialBoard, and board-utils
\* and generateBoardCommitment and the proof generators before any call,
\* and the invite modal closed.
PlacementMounted ==
  /\ placementBoard = createEmptyBoard
  /\ shipsToPlace = ShipTypes
  /\ isHorizontal = TRUE
  /\ placingShip = StartPlacing(ShipTypes, NoShip, TRUE)
  /\ hoverPosition = NoHover
  /\ completedBoard = NoBoard
  /\ utilBoard = createEmptyBoard
  /\ utilAdded = [pc |-> "idle"]
  /\ committed = << >>
  /\ circuitInput = [pc |-> "idle"]
  /\ inviteModal = ModalMounted

\* No socket was created yet and the component is mounted.
ChannelIdle ==
  /\ sockets = <<>>
  /\ webSocketRef = 0
  /\ heartbeatIntervalRef = 0
  /\ timers = <<>>
  /\ pings = <<>>
  /\ isConnected = FALSE
  /\ sessionId = Null
  /\ mounted = TRUE
  /\ joinCalls = 0

BuilderIdle ==
  /\ placements = <<>>
  /\ created = [pc |-> "idle"]
  /\ validated = [pc |-> "idle"]
  /\ checked = [pc |-> "idle"]
  /\ randomRun = [pc |-> "idle"]
  /\ PlacementMounted

VerifierIdle == verifier = [pc |-> "idle"]

Init == PageInit /\ ProverIdle /\ ChannelIdle /\ BuilderIdle /\ VerifierIdle

\* Session set-up and end: snapshots, board_submitted, game_over; board
\* submission and forfeit.
NextSession ==
  \/ Relay(SessionMsgs)
  \/ Commit(MaxShots)
  \/ BoardComplete
  \/ BoardSteps
  \/ Forfeit
  \/ ForfeitSteps

SpecSession == Init /\ [][NextSession]_vars

\* The local player's shots: ACTIVE snapshots, shot_result for own shots;
\* handleMakeShot.
NextOwnShots ==
  \/ Relay(OwnShotMsgs)
  \/ Commit(MaxShots)
  \/ MakeShot
  \/ MakeShotSteps

SpecOwnShots == Init /\ [][NextOwnShots]_vars

\* The opponent's shots: shot_fired, shot_result for the opponent's shots;
\* board submission and handleOpponentShot.  With at most MaxShots entries
\* in a shot list the fleet is never sunk.
NextOppShots ==
  \/ Relay(OppShotMsgs)
  \/ Commit(MaxShots)
  \/ BoardComplete
  \/ BoardSteps
  \/ OppShotSteps(MaxShots)

SpecOppShots == Init /\ [][NextOppShots]_vars

\* Shots of both players with one board: a SETUP snapshot, an ACTIVE snapshot
\* that gives the local player the turn, the opponent's shot_fired; board
\* submission, handleMakeShot and handleOpponentShot.
NextBothShots ==
  \/ Relay(BothShotMsgs)
  \/ Commit(MaxShots)
  \/ HandleBoardComplete(BoardA, ShortSalt)
  \/ BoardSteps
  \/ MakeShot
  \/ MakeShotSteps
  \/ OppShotSteps(MaxShots)

SpecBothShots == Init /\ [][NextBothShots]_vars

\* The opponent's shots up to the end of the game: the shot lists may grow to
\* the FleetCells entries that sink a fleet.  The player places BoardA, all of
\* whose (0, 0) shots hit.
NextSink ==
  \/ Relay(SinkMsgs)
  \/ Commit(FleetCells)
  \/ HandleBoardComplete(BoardA, ShortSalt)
  \/ BoardSteps
  \/ OppShotSteps(FleetCells)
  \/ GameEndSteps

SpecSink == Init /\ [][NextSink]_vars

(***************************************************************************)
(* useGameSession: the WebSocket and its heartbeat (lines 596-699, 793-805) *)
(* Every handler runs to completion on the event loop, so each is one      *)
(* step; the close event of a socket closed with close() comes in a later  *)
(* step.                                                                   *)
(***************************************************************************)
\* ws.close(): a socket that is connecting or open starts closing.
CloseSocket(socks, s) ==
  IF s # 0 /\ socks[s] \in {"CONNECTING", "OPEN"}
  THEN [socks EXCEPT ![s] = "CLOSING"] ELSE socks

\* clearInterval(heartbeatIntervalRef.current) behind its null test.
ClearHeartbeat(tms, t) ==
  IF t # 0 THEN [tms EXCEPT ![t].active = FALSE] ELSE tms

\* disconnectFromSession without the clearInterval of lines 690-694.
DisconnectFromSessionKeepingHeartbeat ==
  /\ mounted
  /\ sockets' = CloseSocket(sockets, webSocketRef)
  /\ webSocketRef' = 0
  /\ isConnected' = FALSE
  /\ sessionId' = Null
  /\ sessionState' = NoSession
  /\ sessionDirty' = (sessionDirty \/ sessionState # NoSession)
  /\ UNCHANGED << proverVars, builderVars, timers, heartbeatIntervalRef, pings,
                  mounted, joinCalls,
                  gamePhase, gameAddress, opponent, isPlayerTurn, winner,
                  playerBoard, playerBoardCommitment, playerBoardSalt,
                  shotsAtPlayer, shotsAtOpponent,
                  isSubmittingBoard, isMakingShot, isProcessingShot,
                  latestEvent, eventsDirty,
                  boardCalls, makeShotCalls, oppShotCalls, forfeitCalls >>

\* connectToSession (lines 603-681).  ok is whether new WebSocket(url)
\* returned; when it throws, the old socket is closed and its heartbeat
\* cleared already.
ConnectToSession(ok) ==
  /\ Len(sockets) < MaxSockets
  /\ sockets' = IF ok THEN Append(CloseSocket(sockets, webSocketRef), "CONNECTING")
                ELSE CloseSocket(sockets, webSocketRef)
  /\ timers' = ClearHeartbeat(timers, heartbeatIntervalRef)
  /\ webSocketRef' = IF ok THEN Len(sockets) + 1 ELSE webSocketRef
  /\ UNCHANGED << pageVars, proverVars, builderVars,
                  heartbeatIntervalRef, pings, isConnected, sessionId, mounted >>

\* GamePage's connect effect (page.tsx lines 94-102).
PageConnect(ok) ==
  /\ mounted
  /\ ConnectToSession(ok)
  /\ UNCHANGED joinCalls

\* joinSession up to its await (lines 720-722).
JoinSession ==
  /\ mounted
  /\ joinCalls < MaxJoinCalls
  /\ joinCalls' = joinCalls + 1
  /\ UNCHANGED << pageVars, proverVars, builderVars,
                  sockets, webSocketRef, heartbeatIntervalRef, timers, pings,
                  isConnected, sessionId, mounted >>

\* backendAPI.joinSession settled (lines 722-730): connectToSession on
\* success, also when the component was unmounted meanwhile.
JoinSessionResolved(joined, ok) ==
  /\ joinCalls > 0
  /\ joinCalls' = joinCalls - 1
  /\ IF joined THEN ConnectToSession(ok)
     ELSE UNCHANGED << pageVars, proverVars, builderVars,
                       sockets, webSocketRef, heartbeatIntervalRef, timers, pings,
                       isConnected, sessionId, mounted >>

\* The open handler (lines 621-631): the heartbeat interval is started and
\* stored in heartbeatIntervalRef.
SocketOpen(s) ==
  /\ s \in 1..Len(sockets)
  /\ sockets[s] = "CONNECTING"
  /\ sockets' = [sockets EXCEPT ![s] = "OPEN"]
  /\ isConnected' = TRUE
  /\ sessionId' = "s1"
  /\ timers' = Append(timers, [ws |-> s, active |-> TRUE])
  /\ heartbeatIntervalRef' = Len(timers) + 1
  /\ UNCHANGED << pageVars, proverVars, builderVars,
                  webSocketRef, pings, mounted, joinCalls >>

\* A message on a socket that has not closed (lines 633-658).
SocketMessage(s, data) ==
  /\ s \in 1..Len(sockets)
  /\ sockets[s] \in {"OPEN", "CLOSING"}
  /\ WsMessage(data)

\* The close handler (lines 660-668), when the socket has closed: after
\* close(), after a failed connection, or because the server closed it.
SocketClose(s) ==
  /\ s \in 1..Len(sockets)
  /\ sockets[s] # "CLOSED"
  /\ sockets' = [sockets EXCEPT ![s] = "CLOSED"]
  /\ isConnected' = FALSE
  /\ timers' = ClearHeartbeat(timers, heartbeatIntervalRef)
  /\ UNCHANGED << pageVars, proverVars, builderVars,
                  webSocketRef, heartbeatIntervalRef, pings, sessionId,
                  mounted, joinCalls >>

\* The interval's callback (lines 626-630): a ping if the socket it was
\* created for is open.
HeartbeatTick(t) ==
  /\ t \in 1..Len(timers)
  /\ timers[t].active
  /\ Len(pings) < MaxPings
  /\ pings' = IF sockets[timers[t].ws] = "OPEN"
              THEN Append(pings, timers[t].ws) ELSE pings
  /\ UNCHANGED << pageVars, proverVars, builderVars,
                  sockets, webSocketRef, heartbeatIntervalRef, timers,
                  isConnected, sessionId, mounted, joinCalls >>

\* disconnectFromSession (lines 684-699).
DisconnectFromSession ==
  /\ mounted
  /\ sockets' = CloseSocket(sockets, webSocketRef)
  /\ webSocketRef' = 0
  /\ timers' = ClearHeartbeat(timers, heartbeatIntervalRef)
  /\ heartbeatIntervalRef' = 0
  /\ isConnected' = FALSE
  /\ sessionId' = Null
  /\ sessionState' = NoSession
  /\ sessionDirty' = (sessionDirty \/ sessionState # NoSession)
  /\ UNCHANGED << proverVars, builderVars, pings, mounted, joinCalls,
                  gamePhase, gameAddress, opponent, isPlayerTurn, winner,
                  playerBoard, playerBoardCommitment, playerBoardSalt,
                  shotsAtPlayer, shotsAtOpponent,
                  isSubmittingBoard, isMakingShot, isProcessingShot,
                  latestEvent, eventsDirty,
                  boardCalls, makeShotCalls, oppShotCalls, forfeitCalls >>

\* The cleanup of the unmount effect (lines 793-805).
Unmount ==
  /\ mounted
  /\ mounted' = FALSE
  /\ sockets' = CloseSocket(sockets, webSocketRef)
  /\ timers' = ClearHeartbeat(timers, heartbeatIntervalRef)
  /\ UNCHANGED << pageVars, proverVars, builderVars,
                  webSocketRef, heartbeatIntervalRef, pings,
                  isConnected, sessionId, joinCalls >>

\* The channel: connecting, joining, the socket's events, the heartbeat,
\* disconnecting and unmounting.
NextChannel ==
  \/ \E ok \in BOOLEAN : PageConnect(ok)
  \/ JoinSession
  \/ \E joined, ok \in BOOLEAN : JoinSessionResolved(joined, ok)
  \/ \E s \in 1..MaxSockets : SocketOpen(s)
  \/ \E s \in 1..MaxSockets : SocketMessage(s, SetupSnapshot)
  \/ \E s \in 1..MaxSockets : SocketClose(s)
  \/ \E t \in 1..MaxSockets : HeartbeatTick(t)
  \/ DisconnectFromSession
  \/ Unmount

SpecChannel == Init /\ [][NextChannel]_vars

\* An interval is running only for a socket that is open.
HeartbeatOnlyWhileOpen ==
  \A t \in 1..Len(timers) : timers[t].active => sockets[timers[t].ws] = "OPEN"

\* C16: once the channel is closed by disconnectFromSession, by a close
\* event, by connectToSession replacing the socket or by unmount, no
\* heartbeat interval of the closed socket is running, and every ping goes
\* to a socket that is open.
ClosingStopsHeartbeat ==
  /\ []HeartbeatOnlyWhileOpen
  /\ [][pings' # pings => sockets[pings'[Len(pings')]] = "OPEN"]_vars

\* C16's case: a socket that was open and was pinged is closing or closed,
\* and its interval was cleared.
HeartbeatStopped ==
  \E t \in 1..Len(timers) :
    /\ ~timers[t].active
    /\ sockets[timers[t].ws] \in {"CLOSING", "CLOSED"}
    /\ \E k \in 1..Len(pings) : pings[k] = timers[t].ws

(***************************************************************************)
(* Properties of the game page                                             *)
(***************************************************************************)
Coords(list) == {list[i] : i \in 1..Len(list)}

NoDuplicates(list) == \A i, j \in 1..Len(list) : list[i] = list[j] => i = j

\* This step is a commit in which the session-state effect ran.
SnapshotApplied == sessionDirty /\ ~sessionDirty' /\ sessionState # NoSession

\* This step is a commit in which the events effect applied a shot_result
\* event for a shot made against the local player.
OpponentShotResultApplied ==
  /\ eventsDirty
  /\ latestEvent.type = "shot_result"
  /\ latestEvent.player = Opp
  /\ oppShotCalls' = oppShotCalls
  /\ shotsAtPlayer' = addShot(shotsAtPlayer, latestEvent.x, latestEvent.y,
                              latestEvent.isHit)

\* This step started an invocation of handleOpponentShot that got as far as
\* generateProof.
OpponentShotStarted == Len(oppShotCalls') > Len(oppShotCalls)

\* C2: when the page processes a shot_fired event of the other player, the
\* isHit it proves and submits is the content of the board it holds at the
\* shot coordinate (read from the board's ships), for the coordinate of the
\* event; a shot_fired event of the local player starts no proof and no
\* submission.
OpponentShotTruthful ==
  [][/\ OpponentShotStarted =>
          /\ latestEvent.type = "shot_fired"
          /\ latestEvent.player = Opp
          /\ playerBoard # NoBoard
          /\ LET c == oppShotCalls'[Len(oppShotCalls')]
             IN /\ c.x = latestEvent.x /\ c.y = latestEvent.y
                /\ c.board = playerBoard
                /\ c.isHit = ShipCovers(playerBoard, c.x, c.y)
     /\ \A i \in 1..Len(oppShotCalls') :
          oppShotCalls'[i].pc = "submit_result" =>
            oppShotCalls'[i].isHit
              = ShipCovers(oppShotCalls'[i].board, oppShotCalls'[i].x,
                           oppShotCalls'[i].y)]_vars

\* C2's case: the result of an opponent's shot that hit is with the ledger.
OpponentShotHitSubmitted ==
  \E i \in 1..Len(oppShotCalls) :
    /\ oppShotCalls[i].pc = "submit_result"
    /\ oppShotCalls[i].isHit
    /\ ShipCovers(playerBoard, oppShotCalls[i].x, oppShotCalls[i].y)

ShotMapClean(m) ==
  /\ NoDuplicates(m.hits)
  /\ NoDuplicates(m.misses)
  /\ Coords(m.hits) \cap Coords(m.misses) = {}

\* C3: no coordinate is twice in a list of a shot map of the page, and none
\* is in both the hits and the misses of a shot map.
ShotMapsClean == ShotMapClean(shotsAtPlayer) /\ ShotMapClean(shotsAtOpponent)

\* C5: GAME_OVER is terminal: once the page is in GAME_OVER no step takes it
\* to another phase.
GameOverTerminal == [][gamePhase = "GAME_OVER" => gamePhase' = "GAME_OVER"]_vars

\* This step is a commit in which only the events effect ran, on a relay
\* event.
EventApplied ==
  /\ eventsDirty /\ ~sessionDirty
  /\ latestEvent # NoEvent /\ latestEvent.type # "session_state"
  /\ latestEvent' = latestEvent
  /\ oppShotCalls' = oppShotCalls \/ OpponentShotStarted
  /\ boardCalls' = boardCalls /\ forfeitCalls' = forfeitCalls
  /\ makeShotCalls' = makeShotCalls

\* C6: applying a relay event never moves the page backward in the order of
\* the phases.
EventNeverRegressesPhase ==
  [][EventApplied => GamePhase[gamePhase'] >= GamePhase[gamePhase]]_vars

\* The phase the page shows for a snapshot's status.
SnapshotPhase(status, hasBoard) ==
  CASE status = "WAITING" -> "WAITING_FOR_OPPONENT"
    [] status = "SETUP" -> IF hasBoard THEN "WAITING_FOR_OPPONENT_BOARD"
                           ELSE "PLACING_SHIPS"
    [] status = "ACTIVE" -> "PLAYING"
    [] status = "COMPLETED" -> "GAME_OVER"

\* C7: a snapshot overwrites phase and turn: after a snapshot is applied (and
\* no relay event in the same commit) the phase is the one of the snapshot's
\* status and of whether a board is stored, and after an ACTIVE snapshot
\* isPlayerTurn is true exactly when its currentTurn is the local account,
\* whatever it was before.
SnapshotOverwrites ==
  [][(SnapshotApplied /\ (latestEvent.type = "session_state" \/ ~eventsDirty)) =>
       /\ sessionState.status \in {"WAITING", "SETUP", "ACTIVE", "COMPLETED"} =>
            gamePhase' = SnapshotPhase(sessionState.status, playerBoard # NoBoard)
       /\ sessionState.status = "ACTIVE" =>
            isPlayerTurn' = (sessionState.currentTurn = Me)]_vars

FiringRevokesTurn ==
  [][Len(makeShotCalls') > Len(makeShotCalls) =>
       (~isPlayerTurn' /\ makeShotCalls = <<>>)]_vars

GameOverRecordsWinner == gamePhase = "GAME_OVER" => winner # Null

\* This step is the end of an invocation of handleBoardComplete whose relay
\* call settled.
BoardSubmissionEnded ==
  \E i \in 1..Len(boardCalls) :
    /\ boardCalls[i].pc = "session_submit"
    /\ boardCalls' = RemoveAt(boardCalls, i)

FewPlayersGivesWaiting ==
  [][(/\ SnapshotApplied
      /\ latestEvent.type = "session_state" \/ ~eventsDirty
      /\ gamePhase = "CONNECTING"
      /\ Len(sessionState.players) < 2)
       => gamePhase' = "WAITING_FOR_OPPONENT"]_vars

\* This step is the end of an invocation of handleBoardComplete whose proof
\* generation or ledger transaction failed.
BoardSubmissionFailed ==
  \E i \in 1..Len(boardCalls) :
    /\ boardCalls[i].pc \in {"board_proof", "submit_board"}
    /\ boardCalls' = RemoveAt(boardCalls, i)

ShotHandlerStepBeforeSuccess ==
  \/ \E c \in PageCoords : HandleMakeShot(c[1], c[2])
  \/ \E i \in 1..MaxMakeShotCalls : MakeShotResolved(i, FALSE)
  \/ \E i \in 1..MaxOppShotCalls, ok \in BOOLEAN : OppShotProofResolved(i, ok)
  \/ \E i \in 1..MaxOppShotCalls : OppShotSubmitResolved(i, FALSE, MaxShots)

\* C15: a failure of contractMakeShot in handleMakeShot, or of the shot proof
\* or of contractSubmitShotResult in handleOpponentShot, leaves the phase,
\* isPlayerTurn, shotsAtPlayer and shotsAtOpponent as they were; nor has the
\* handler changed them before the failure.
ShotFailureKeepsState ==
  [][ShotHandlerStepBeforeSuccess =>
       UNCHANGED << gamePhase, isPlayerTurn, shotsAtPlayer, shotsAtOpponent >>]_vars

\* C15's case: the opponent's shot_fired was processed with a board stored
\* and the invocation of handleOpponentShot has ended without recording the
\* shot, that is, it failed.
OpponentShotFailed ==
  /\ playerBoard # NoBoard
  /\ latestEvent.type = "shot_fired" /\ latestEvent.player = Opp
  /\ ~eventsDirty
  /\ oppShotCalls = <<>>
  /\ ~isProcessingShot
  /\ shotsAtPlayer = createEmptyShotMap

\* C17: handleMakeShot hands a shot to the ledger only when a local board,
\* its salt and its commitment are stored.
NoShotBeforeCommitment ==
  [][Len(makeShotCalls') > Len(makeShotCalls) =>
       /\ playerBoard # NoBoard
       /\ playerBoardSalt # NoSalt
       /\ playerBoardCommitment # NoCommitment]_vars

\* This step is a commit in which only the events effect ran, on a
\* shot_result event for a shot of the local player.
OwnShotResultApplied ==
  /\ eventsDirty /\ ~sessionDirty
  /\ latestEvent.type = "shot_result"
  /\ latestEvent.player = Me
  /\ latestEvent' = latestEvent
  /\ makeShotCalls' = makeShotCalls
  /\ oppShotCalls' = oppShotCalls /\ boardCalls' = boardCalls
  /\ shotsAtOpponent' # shotsAtOpponent \/ isMakingShot' # isMakingShot
     \/ eventsDirty' # eventsDirty

\* C18: processing a shot_result for the local player's own shot appends
\* (x,y) to the hits of shotsAtOpponent when it was a hit and to the misses
\* when it was not, leaves the other list alone, clears isMakingShot, and
\* leaves shotsAtPlayer, the phase and the turn flag unchanged.
OwnShotResultRecorded ==
  [][OwnShotResultApplied =>
       /\ LET c == <<latestEvent.x, latestEvent.y>> IN
          IF latestEvent.isHit
          THEN /\ shotsAtOpponent'.hits = Append(shotsAtOpponent.hits, c)
               /\ shotsAtOpponent'.misses = shotsAtOpponent.misses
          ELSE /\ shotsAtOpponent'.misses = Append(shotsAtOpponent.misses, c)
               /\ shotsAtOpponent'.hits = shotsAtOpponent.hits
       /\ ~isMakingShot'
       /\ UNCHANGED << shotsAtPlayer, gamePhase, isPlayerTurn >>]_vars

\* C18's case: the local player fired at (0,0), the ledger accepted the
\* shot, and the relay's shot_result for it was processed as a hit.
OwnHitRecorded ==
  /\ latestEvent = ShotResultMsg(Me, 0, 0, TRUE)
  /\ shotsAtOpponent.hits = << <<0, 0>> >>
  /\ shotsAtOpponent.misses = <<>>
  /\ ~isMakingShot
  /\ sessionState = StoredSession(ActiveSnapshot(Me)) /\ ~sessionDirty
  /\ ~isPlayerTurn
  /\ gamePhase = "PLAYING"
  /\ makeShotCalls = <<>>

(***************************************************************************)
(* shotProver.ts called on its own: generateShotProof with arguments drawn *)
(* from small sets, and addShot applied to a shot map that starts empty.   *)
(***************************************************************************)
ProverBoards == {BoardA, BoardB}

\* Shot coordinates outside and inside the board.
ProverXY == {-1, 0, 9, 10}

ShotCoords == {<<0, 0>>, <<9, 9>>}

ProverInit ==
  /\ PageInit
  /\ ChannelIdle
  /\ BuilderIdle
  /\ VerifierIdle
  /\ shotArgs \in [board : ProverBoards, x : ProverXY, y : ProverXY,
                   isHit : BOOLEAN, salt : PageSalts]
  /\ shotProof = [pc |-> "idle"]
  /\ proofRequests = <<>>
  /\ shotMap = createEmptyShotMap
  /\ lastShot = <<>>

\* generateShotProof(board, x, y, isHit, salt) up to its await of
\* generateProof: it throws, or hands the circuit input to the prover.
GenerateShotProof ==
  /\ shotProof.pc = "idle"
  /\ LET r == ShotProofInput(shotArgs.board, shotArgs.x, shotArgs.y,
                             shotArgs.isHit, shotArgs.salt)
     IN IF r.ok
        THEN /\ proofRequests' = Append(proofRequests, r.input)
             /\ shotProof' = [pc |-> "proving"]
        ELSE /\ shotProof' = [pc |-> "rejected", error |-> r.error]
             /\ UNCHANGED proofRequests
  /\ UNCHANGED << pageVars, channelVars, builderVars, shotArgs, shotMap, lastShot >>

\* generateProof settled: the proof, or the prover's error rethrown.
GenerateProofSettled(ok) ==
  /\ shotProof.pc = "proving"
  /\ shotProof' = IF ok THEN [pc |-> "resolved"]
                  ELSE [pc |-> "rejected", error |-> "prover"]
  /\ UNCHANGED << pageVars, channelVars, builderVars, shotArgs, proofRequests, shotMap, lastShot >>

\* shotMap = addShot(shotMap, x, y, isHit)
AddShot(x, y, isHit) ==
  /\ Len(shotMap.hits) + (IF isHit THEN 1 ELSE 0) <= MaxShots
  /\ Len(shotMap.misses) + (IF isHit THEN 0 ELSE 1) <= MaxShots
  /\ shotMap' = addShot(shotMap, x, y, isHit)
  /\ lastShot' = <<x, y, isHit>>
  /\ UNCHANGED << pageVars, channelVars, builderVars, shotArgs, shotProof, proofRequests >>

NextShotProver ==
  \/ GenerateShotProof
  \/ \E ok \in BOOLEAN : GenerateProofSettled(ok)
  \/ \E c \in ShotCoords, isHit \in BOOLEAN : AddShot(c[1], c[2], isHit)

SpecShotProver == ProverInit /\ [][NextShotProver]_vars

(***************************************************************************)
(* Properties of shotProver.ts                                             *)
(***************************************************************************)
InBounds(x, y) == x >= 0 /\ x < BOARD_SIZE /\ y >= 0 /\ y < BOARD_SIZE

\* The claimed isHit differs from the content of the board at the shot
\* coordinate, read from the board's ships.
ClaimMismatch ==
  /\ InBounds(shotArgs.x, shotArgs.y)
  /\ shotArgs.isHit # ShipCovers(shotArgs.board, shotArgs.x, shotArgs.y)

\* C1: generateShotProof rejects every claim that does not match the board:
\* once it has been called with an isHit that differs from the board's
\* content at the shot coordinate, the call is rejected with the mismatch
\* error, no circuit input was built and nothing was handed to the prover;
\* whatever was handed to the prover carries a claim that matches the board.
ShotProofRejectsMismatch ==
  /\ (ClaimMismatch /\ shotProof.pc # "idle")
       => /\ shotProof = [pc |-> "rejected", error |-> "claim_mismatch"]
          /\ proofRequests = <<>>
  /\ \A i \in 1..Len(proofRequests) :
       /\ InBounds(proofRequests[i].shot_x, proofRequests[i].shot_y)
       /\ (proofRequests[i].is_hit = 1)
            = ShipCovers(shotArgs.board, proofRequests[i].shot_x,
                         proofRequests[i].shot_y)

\* C1's case: a mismatching claim whose salt could be encoded has been
\* rejected.
ShotProofMismatchRejected ==
  /\ ClaimMismatch
  /\ shotArgs.salt = ShortSalt
  /\ shotProof.pc = "rejected"

\* C4: addShot is idempotent and keeps the two lists disjoint: after a shot
\* was added, adding the same coordinate again leaves the shot map as it is,
\* no coordinate is twice in a list, and none is in both hits and misses.
AddShotIdempotentDisjoint ==
  lastShot # <<>> =>
    /\ addShot(shotMap, lastShot[1], lastShot[2], lastShot[3]) = shotMap
    /\ NoDuplicates(shotMap.hits)
    /\ NoDuplicates(shotMap.misses)
    /\ Coords(shotMap.hits) \cap Coords(shotMap.misses) = {}

(***************************************************************************)
(* boardProver.ts called on its own: createBoard applied to a list of      *)
(* five placements, and validateBoard applied to the board it returns.     *)
(***************************************************************************)
\* The placements tried for each ship of the fleet: inside the grid, against
\* the right and the bottom edge, one cell beyond them, at negative
\* coordinates, and over the ship placed before.
BuilderPlacements ==
  << {Ship(5, 0, 0, TRUE), Ship(5, 5, 0, TRUE), Ship(5, 6, 0, TRUE),
      Ship(5, -1, 0, TRUE), Ship(5, 0, -1, FALSE)},
     {Ship(4, 0, 2, TRUE), Ship(4, 0, 0, FALSE), Ship(4, 9, 6, FALSE),
      Ship(4, 9, 7, FALSE)},
     {Ship(3, 0, 4, TRUE), Ship(3, 2, 2, TRUE)},
     {Ship(3, 0, 6, TRUE), Ship(3, 0, 4, TRUE), Ship(3, 4, -1, FALSE)},
     {Ship(2, 0, 8, TRUE), Ship(2, 8, 9, TRUE), Ship(2, 9, 9, TRUE)} >>

Reverse(seq) == [k \in 1..Len(seq) |-> seq[Len(seq) + 1 - k]]

\* The lists handed to createBoard: one placement per ship, largest ship
\* first or last.
BuilderFleets ==
  LET inOrder == {f \in [1..Len(BuilderPlacements) ->
                           UNION {BuilderPlacements[k] : k \in 1..Len(BuilderPlacements)}] :
                    \A k \in 1..Len(BuilderPlacements) : f[k] \in BuilderPlacements[k]}
  IN inOrder \cup {Reverse(f) : f \in inOrder}

\* Lists that are not a {5,4,3,3,2} fleet: the sizes of manual placement,
\* a ship missing, a ship too many, and no ship.
BuilderOddFleets ==
  {FleetManual, SubSeq(FleetA, 1, 4), FleetA \o << Ship(1, 9, 9, TRUE) >>, <<>>}

\* The grids handed to validateBoard with a ship list: empty, that of
\* FleetA (17 cells) and that of FleetManual (15 cells).
BuilderGrids == {EmptyGrid, BoardA.grid, BoardManual.grid}

BuilderInit ==
  /\ PageInit
  /\ ProverIdle
  /\ ChannelIdle
  /\ placements \in BuilderFleets \cup BuilderOddFleets
  /\ created = [pc |-> "idle"]
  /\ validated = [pc |-> "idle"]
  /\ checked = [pc |-> "idle"]
  /\ randomRun = [pc |-> "idle"]
  /\ PlacementMounted
  /\ VerifierIdle

\* createBoard(placements) returns or throws.
CreateBoard ==
  /\ created.pc = "idle"
  /\ created' = [pc |-> "done", result |-> createBoard(placements)]
  /\ UNCHANGED << pageVars, proverVars, channelVars, placements, validated, checked, randomRun, placementVars >>

\* validateBoard applied to the board createBoard returned.
ValidateBoard ==
  /\ created.pc = "done" /\ created.result.ok
  /\ validated.pc = "idle"
  /\ validated' = [pc |-> "done", result |-> validateBoard(created.result.board)]
  /\ UNCHANGED << pageVars, proverVars, channelVars, placements, created, checked, randomRun, placementVars >>

\* validateBoard applied to a board object whose grid the caller supplies.
ValidateGiven(grid) ==
  /\ checked.pc = "idle"
  /\ checked' = [pc |-> "done", grid |-> grid,
                 result |-> validateBoard([ships |-> placements, grid |-> grid])]
  /\ UNCHANGED << pageVars, proverVars, channelVars, placements, created, validated, randomRun, placementVars >>

NextBoardProver ==
  \/ CreateBoard
  \/ ValidateBoard
  \/ \E grid \in BuilderGrids : ValidateGiven(grid)

SpecBoardProver == BuilderInit /\ [][NextBoardProver]_vars

(***************************************************************************)
(* boardProver.ts: generateRandomBoard (lines 189-268).  One step is one   *)
(* pass of the while loop; Math.random is a free choice.                   *)
(***************************************************************************)
\* const maxAttempts = 100 (line 199)
maxAttempts == 100

\* Math.floor(Math.random() * (max + 1)) is any of 0..max; the model draws
\* 0 for x and the even numbers for y, which gives ships side by side, end
\* to end and across each other, and 144 complete layouts.
RandomX(max) == {0}

RandomY(max) == {v \in 0..max : v % 2 = 0}

\* The validity check without the cells around the ship: only the ship's
\* own cells are looked at.
RandomValidOwnCells(tempGrid, size, x, y, horizontal) ==
  \A i \in 0..(size - 1) :
    LET checkX == IF horizontal THEN x + i ELSE x
        checkY == IF horizontal THEN y ELSE y + i
    IN tempGrid[checkY + 1][checkX + 1] = 0

\* Lines 213-242: no cell of the ship and no cell around it that lies in
\* the grid is occupied.
RandomValid(tempGrid, size, x, y, horizontal) ==
  \A i \in -1..size, j \in -1..1 :
    LET checkX == IF horizontal THEN x + i ELSE x + j
        checkY == IF horizontal THEN y + j ELSE y + i
    IN (checkX < 0 \/ checkX >= BOARD_SIZE \/ checkY < 0 \/ checkY >= BOARD_SIZE)
         \/ tempGrid[checkY + 1][checkX + 1] = 0

\* Lines 250-254: the ship's cells set to 1.
MarkShip(tempGrid, ship) ==
  [r \in 1..BOARD_SIZE |-> [c \in 1..BOARD_SIZE |->
     IF <<c - 1, r - 1>> \in {ShipCell(ship, i) : i \in 0..(ship.size - 1)}
     THEN 1 ELSE tempGrid[r][c]]]

\* A call starts with no ship and an empty temporary grid (lines 190-193).
RandomRunStart(restarts) ==
  [pc |-> "placing", ships |-> <<>>, tempGrid |-> EmptyGrid,
   attempts |-> 0, restarts |-> restarts]

GenerateRandomBoard ==
  /\ randomRun.pc = "idle"
  /\ randomRun' = RandomRunStart(0)
  /\ UNCHANGED << pageVars, proverVars, channelVars,
                  placements, created, validated, checked, placementVars >>

\* One pass of the while loop (lines 202-258) for the ship of size
\* SHIP_SIZES[Len(ships) + 1].
RandomAttempt(horizontal, x, y) ==
  /\ randomRun.pc = "placing"
  /\ Len(randomRun.ships) < Len(SHIP_SIZES)
  /\ randomRun.attempts < maxAttempts
  /\ LET size == SHIP_SIZES[Len(randomRun.ships) + 1]
         maxX == IF horizontal THEN BOARD_SIZE - size ELSE BOARD_SIZE - 1
         maxY == IF horizontal THEN BOARD_SIZE - 1 ELSE BOARD_SIZE - size
     IN /\ x \in RandomX(maxX)
        /\ y \in RandomY(maxY)
        /\ randomRun' =
             IF RandomValid(randomRun.tempGrid, size, x, y, horizontal)
             THEN [randomRun EXCEPT
                     !.ships = Append(@, Ship(size, x, y, horizontal)),
                     !.tempGrid = MarkShip(@, Ship(size, x, y, horizontal)),
                     !.attempts = 0]
             ELSE [randomRun EXCEPT !.attempts = @ + 1]
  /\ UNCHANGED << pageVars, proverVars, channelVars,
                  placements, created, validated, checked, placementVars >>

\* Lines 260-263 starting over for the failed ship only: the ships placed
\* so far and the temporary grid are kept.
RandomRestartKeepingShips ==
  /\ randomRun.pc = "placing"
  /\ Len(randomRun.ships) < Len(SHIP_SIZES)
  /\ randomRun.attempts >= maxAttempts
  /\ randomRun.restarts < MaxRestarts
  /\ randomRun' = [randomRun EXCEPT !.attempts = 0, !.restarts = @ + 1]
  /\ UNCHANGED << pageVars, proverVars, channelVars,
                  placements, created, validated, checked, placementVars >>

\* Lines 260-263: the ship was not placed in maxAttempts attempts and the
\* function calls itself.
RandomRestart ==
  /\ randomRun.pc = "placing"
  /\ Len(randomRun.ships) < Len(SHIP_SIZES)
  /\ randomRun.attempts >= maxAttempts
  /\ randomRun.restarts < MaxRestarts
  /\ randomRun' = RandomRunStart(randomRun.restarts + 1)
  /\ UNCHANGED << pageVars, proverVars, channelVars,
                  placements, created, validated, checked, placementVars >>

\* Line 267: return createBoard(ships).
RandomReturn ==
  /\ randomRun.pc = "placing"
  /\ Len(randomRun.ships) = Len(SHIP_SIZES)
  /\ randomRun' = [pc |-> "returned", restarts |-> randomRun.restarts,
                   result |-> createBoard(randomRun.ships)]
  /\ UNCHANGED << pageVars, proverVars, channelVars,
                  placements, created, validated, checked, placementVars >>

NextRandomBoard ==
  \/ GenerateRandomBoard
  \/ \E horizontal \in BOOLEAN, x, y \in 0..(BOARD_SIZE - 1) :
       RandomAttempt(horizontal, x, y)
  \/ RandomRestart
  \/ RandomReturn

SpecRandomBoard == Init /\ [][NextRandomBoard]_vars

(***************************************************************************)
(* ShipPlacement.tsx: the handlers of the placement component.  The effect *)
(* that picks up the next ship runs in the commit that follows a handler   *)
(* and is part of its step.                                                *)
(***************************************************************************)
\* The cells the mouse is moved to: the left end of every second row.
PlacementCoords == {<<0, y>> : y \in {0, 2, 4, 6, 8}}

\* What generateRandomBoard hands to the component.
RandomBoards == {BoardA, BoardB}

builderRest == << placements, created, validated, checked, randomRun >>

\* The component is followed up to its first onComplete: the page takes it
\* off the screen when the board was submitted (page.tsx lines 382-395).
PlacementShown == completedBoard = NoBoard

\* The keydown handler (lines 74-90): Space turns the ship being placed.
PlacementKeyDown ==
  /\ PlacementShown
  /\ placingShip # NoShip
  /\ isHorizontal' = ~isHorizontal
  /\ placingShip' = [placingShip EXCEPT !.horizontal = ~isHorizontal]
  /\ UNCHANGED << pageVars, proverVars, channelVars, builderRest,
                  placementBoard, shipsToPlace, hoverPosition, completedBoard,
                  utilBoard, utilAdded, committed, circuitInput, verifier,
                  inviteModal >>

\* handleMouseMove (lines 93-108); coords is NoHover off the board.
PlacementMouseMove(coords) ==
  /\ PlacementShown
  /\ placingShip # NoShip
  /\ hoverPosition' = coords
  /\ placingShip' = IF coords = NoHover THEN placingShip
                    ELSE [placingShip EXCEPT !.x = coords[1], !.y = coords[2],
                                             !.horizontal = isHorizontal]
  /\ UNCHANGED << pageVars, proverVars, channelVars, builderRest,
                  placementBoard, shipsToPlace, isHorizontal, completedBoard,
                  utilBoard, utilAdded, committed, circuitInput, verifier,
                  inviteModal >>

\* handleMouseLeave (lines 111-113).
PlacementMouseLeave ==
  /\ PlacementShown
  /\ hoverPosition' = NoHover
  /\ UNCHANGED << pageVars, proverVars, channelVars, builderRest,
                  placementBoard, shipsToPlace, placingShip, isHorizontal,
                  completedBoard, utilBoard, utilAdded, committed, circuitInput, verifier,
                  inviteModal >>

\* handleBoardClick (lines 116-141).
PlacementBoardClick ==
  /\ PlacementShown
  /\ placingShip # NoShip /\ hoverPosition # NoHover
  /\ IF isValidPlacement(placementBoard, placingShip)
     THEN /\ placementBoard' = addShipToBoard(placementBoard, placingShip).board
          /\ shipsToPlace' = Tail(shipsToPlace)
          /\ placingShip' = StartPlacing(Tail(shipsToPlace), NoShip, isHorizontal)
     ELSE UNCHANGED << placementBoard, shipsToPlace, placingShip >>
  /\ UNCHANGED << pageVars, proverVars, channelVars, builderRest,
                  hoverPosition, isHorizontal, completedBoard,
                  utilBoard, utilAdded, committed, circuitInput, verifier,
                  inviteModal >>

\* handleRandomPlacement (lines 144-151), once the import has resolved.
PlacementRandom(randomBoard) ==
  /\ PlacementShown
  /\ placementBoard' = randomBoard
  /\ shipsToPlace' = <<>>
  /\ placingShip' = NoShip
  /\ UNCHANGED << pageVars, proverVars, channelVars, builderRest,
                  hoverPosition, isHorizontal, completedBoard,
                  utilBoard, utilAdded, committed, circuitInput, verifier,
                  inviteModal >>

\* handleComplete (lines 154-158): onComplete(board).
PlacementComplete ==
  /\ PlacementShown
  /\ Len(shipsToPlace) = 0
  /\ completedBoard' = placementBoard
  /\ UNCHANGED << pageVars, proverVars, channelVars, builderRest,
                  placementBoard, shipsToPlace, placingShip, hoverPosition,
                  isHorizontal, utilBoard, utilAdded, committed, circuitInput, verifier,
                  inviteModal >>

\* handleReset (lines 161-171).
PlacementReset ==
  /\ PlacementShown
  /\ placementBoard' = createEmptyBoard
  /\ shipsToPlace' = ShipTypes
  /\ placingShip' = StartPlacing(ShipTypes, NoShip, isHorizontal)
  /\ UNCHANGED << pageVars, proverVars, channelVars, builderRest,
                  hoverPosition, isHorizontal, completedBoard,
                  utilBoard, utilAdded, committed, circuitInput, verifier,
                  inviteModal >>

NextShipPlacement ==
  \/ PlacementKeyDown
  \/ \E coords \in PlacementCoords \cup {NoHover} : PlacementMouseMove(coords)
  \/ PlacementMouseLeave
  \/ PlacementBoardClick
  \/ \E randomBoard \in RandomBoards : PlacementRandom(randomBoard)
  \/ PlacementComplete
  \/ PlacementReset

SpecShipPlacement == Init /\ [][NextShipPlacement]_vars

(***************************************************************************)
(* board-utils called on its own: addShipToBoard applied to a board that   *)
(* starts as createEmptyBoard(), the caller going on with the board        *)
(* returned.                                                               *)
(***************************************************************************)
\* The ships handed to addShipToBoard: apart, side by side, end to end,
\* across each other, beyond the bottom edge and at negative coordinates.
UtilShips ==
  {Ship(5, 0, 0, TRUE), Ship(4, 0, 2, TRUE), Ship(3, 0, 1, TRUE),
   Ship(2, 5, 0, TRUE), Ship(2, 6, 1, TRUE), Ship(4, 3, 1, FALSE),
   Ship(3, 9, 7, FALSE), Ship(3, 9, 8, FALSE),
   Ship(2, -1, 5, TRUE), Ship(1, 0, -1, FALSE)}

\* addShipToBoard(utilBoard, ship) returns or throws; utilBoard is the
\* caller's object, which the function copies (lines 282-283).
AddShipToBoard(ship) ==
  /\ utilAdded' = [pc |-> "done", ship |-> ship,
                   result |-> addShipToBoard(utilBoard, ship)]
  /\ UNCHANGED << pageVars, proverVars, channelVars, builderRest,
                  placementBoard, shipsToPlace, placingShip, hoverPosition,
                  isHorizontal, completedBoard, utilBoard, committed, circuitInput, verifier,
                  inviteModal >>

\* The caller goes on with the board that was returned.
KeepReturnedBoard ==
  /\ utilAdded.pc = "done" /\ utilAdded.result.ok
  /\ utilBoard' = utilAdded.result.board
  /\ utilAdded' = [pc |-> "idle"]
  /\ UNCHANGED << pageVars, proverVars, channelVars, builderRest,
                  placementBoard, shipsToPlace, placingShip, hoverPosition,
                  isHorizontal, completedBoard, committed, circuitInput, verifier,
                  inviteModal >>

NextBoardUtils ==
  \/ \E ship \in UtilShips : AddShipToBoard(ship)
  \/ KeepReturnedBoard

SpecBoardUtils == Init /\ [][NextBoardUtils]_vars

(***************************************************************************)
(* generateBoardCommitment called on its own, several times.               *)
(***************************************************************************)
MaxCommitCalls == 2

\* BoardA with the last cell of its grid changed.
BoardACellChanged == [BoardA EXCEPT !.grid[BOARD_SIZE][BOARD_SIZE] = 1 - @]

CommitBoards == {BoardA, BoardACellChanged, BoardB}

\* The character code of a hexadecimal digit, in lower case.
HexDigit(n) == IF n < 10 THEN 48 + n ELSE 87 + n

\* ethers.utils.hexlify of a byte array: "0x" and two digits per byte.
RECURSIVE Hexlify(_)
Hexlify(bytes) ==
  IF bytes = << >> THEN << 48, 120 >>
  ELSE Hexlify(SubSeq(bytes, 1, Len(bytes) - 1))
         \o << HexDigit(bytes[Len(bytes)] \div 16), HexDigit(bytes[Len(bytes)] % 16) >>

\* generateSalt (lines 274-276) for the bytes randomBytes(16) returned:
\* hexlify(bytes).slice(2).
generateSalt(bytes) == LET hex == Hexlify(bytes) IN SubSeq(hex, 3, Len(hex))

\* Values of randomBytes(16): all zero, all 255, and 0x00, 0x11, ..., 0xff.
RandomBytes ==
  {[k \in 1..16 |-> 0], [k \in 1..16 |-> 255], [k \in 1..16 |-> 17 * (k - 1)]}

GeneratedSalts == {generateSalt(bytes) : bytes \in RandomBytes}

\* "a", "a" followed by the character U+0000, "b", the two salts of the
\* page, and the generated salts.
CommitSalts ==
  {<< 97 >>, << 97, 0 >>, << 98 >>, ShortSalt, GeneratedSalt} \cup GeneratedSalts

GenerateBoardCommitment(board, salt) ==
  /\ Len(committed) < MaxCommitCalls
  /\ committed' = Append(committed,
                         [board |-> board, salt |-> salt,
                          result |-> generateBoardCommitment(board, salt)])
  /\ UNCHANGED << pageVars, proverVars, channelVars, builderRest,
                  placementBoard, shipsToPlace, placingShip, hoverPosition,
                  isHorizontal, completedBoard, utilBoard, utilAdded, circuitInput, verifier,
                  inviteModal >>

NextCommitment ==
  \E board \in CommitBoards, salt \in CommitSalts :
     GenerateBoardCommitment(board, salt)

SpecCommitment == Init /\ [][NextCommitment]_vars

(***************************************************************************)
(* generateBoardProof, generateShotProof and generateGameEndProof called   *)
(* on their own, each up to the circuit input it hands to generateProof.   *)
(***************************************************************************)
CircuitSalts == {<< 97 >>, ShortSalt, GeneratedSalt}

CircuitXY == {0, 5, 9}

\* The board's ship cells in row-major order, as hit coordinates.
ShipCellsSeq(board) ==
  SelectSeq([k \in 1..(BOARD_SIZE * BOARD_SIZE) |->
               << (k - 1) % BOARD_SIZE, (k - 1) \div BOARD_SIZE >>],
            LAMBDA c : board.grid[c[2] + 1][c[1] + 1] = 1)

\* The board's water cells in row-major order.
WaterCellsSeq(board) ==
  SelectSeq([k \in 1..(BOARD_SIZE * BOARD_SIZE) |->
               << (k - 1) % BOARD_SIZE, (k - 1) \div BOARD_SIZE >>],
            LAMBDA c : board.grid[c[2] + 1][c[1] + 1] # 1)

\* No shot yet; every ship cell hit; every ship cell but the last hit; and
\* every ship cell hit after a miss on the first water cell.
CircuitShotMaps(board) ==
  LET cells == ShipCellsSeq(board) IN
  {createEmptyShotMap,
   [hits |-> cells, misses |-> << >>],
   [hits |-> SubSeq(cells, 1, Len(cells) - 1), misses |-> << >>],
   [hits |-> cells, misses |-> << WaterCellsSeq(board)[1] >>]}

circuitRest ==
  << pageVars, proverVars, channelVars, builderRest, placementBoard,
     shipsToPlace, placingShip, hoverPosition, isHorizontal, completedBoard,
     utilBoard, utilAdded, committed, verifier, inviteModal >>

BuildBoardProofInput(board, salt) ==
  /\ circuitInput' = [pc |-> "done", call |-> "generateBoardProof",
                      board |-> board, salt |-> salt, args |-> << >>,
                      result |-> BoardProofInput(board, salt)]
  /\ UNCHANGED circuitRest

BuildShotProofInput(board, x, y, isHit, salt) ==
  /\ circuitInput' = [pc |-> "done", call |-> "generateShotProof",
                      board |-> board, salt |-> salt,
                      args |-> << x, y, isHit >>,
                      result |-> ShotProofInput(board, x, y, isHit, salt)]
  /\ UNCHANGED circuitRest

BuildGameEndProofInput(board, shots, salt) ==
  /\ circuitInput' = [pc |-> "done", call |-> "generateGameEndProof",
                      board |-> board, salt |-> salt,
                      args |-> << shots >>,
                      result |-> GameEndProofInput(board, shots, salt)]
  /\ UNCHANGED circuitRest

NextCircuitInput ==
  \E board \in PlacementBoards, salt \in CircuitSalts :
    \/ BuildBoardProofInput(board, salt)
    \/ \E x, y \in CircuitXY, isHit \in BOOLEAN :
         BuildShotProofInput(board, x, y, isHit, salt)
    \/ \E shots \in CircuitShotMaps(board) :
         BuildGameEndProofInput(board, shots, salt)

SpecCircuitInput == Init /\ [][NextCircuitInput]_vars

(***************************************************************************)
(* checkShotResult and checkAllShipsSunk called on their own, on a board   *)
(* built by createBoard.                                                   *)
(***************************************************************************)
MaxHits == 18

MaxRepeatedHits == 1

\* Every board createBoard builds from the lists of the builder harness,
\* and the second random layout.
VerifierBoards ==
  {createBoard(f).board :
     f \in {g \in BuilderFleets \cup BuilderOddFleets \cup {FleetB} : createBoard(g).ok}}

\* Coordinates inside the grid and one cell beyond each edge.
VerifierXY == (-1)..BOARD_SIZE

VerifierInit ==
  /\ PageInit
  /\ ProverIdle
  /\ ChannelIdle
  /\ BuilderIdle
  /\ verifier \in [pc : {"ready"}, board : VerifierBoards,
                   shotMap : {createEmptyShotMap},
                   isHit : {[pc |-> "idle"]}, allSunk : {[pc |-> "idle"]}]

verifierRest ==
  << pageVars, proverVars, channelVars, builderRest, placementBoard,
     shipsToPlace, placingShip, hoverPosition, isHorizontal, completedBoard,
     utilBoard, utilAdded, committed, circuitInput, inviteModal >>

\* checkShotResult(board, x, y) returns or throws.
CheckShotResult(x, y) ==
  /\ verifier' = [verifier EXCEPT
                    !.isHit = [pc |-> "done", x |-> x, y |-> y,
                               result |-> checkShotResult(verifier.board, x, y)]]
  /\ UNCHANGED verifierRest

SpecCheckShot ==
  VerifierInit /\ [][\E x, y \in VerifierXY : CheckShotResult(x, y)]_vars

\* The hits recorded so far, without repetitions.
DistinctHits == {verifier.shotMap.hits[k] : k \in 1..Len(verifier.shotMap.hits)}

\* The next hit: the first ship cell, row by row, that was not hit yet, or
\* the last hit once more.
NextHits ==
  LET cells == ShipCellsSeq(verifier.board)
      open == SelectSeq(cells, LAMBDA c : c \notin DistinctHits)
      hits == verifier.shotMap.hits
  IN (IF open # << >> THEN {open[1]} ELSE {})
       \cup (IF hits # << >> /\ Len(hits) - Cardinality(DistinctHits) < MaxRepeatedHits
             THEN {hits[Len(hits)]} ELSE {})

\* shotMap = addShot(shotMap, x, y, true), then checkAllShipsSunk(board,
\* shotMap).
RecordHit(c) ==
  /\ Len(verifier.shotMap.hits) < MaxHits
  /\ LET newShotMap == addShot(verifier.shotMap, c[1], c[2], TRUE)
     IN verifier' = [verifier EXCEPT
                       !.shotMap = newShotMap,
                       !.allSunk = [pc |-> "done",
                                    result |-> checkAllShipsSunk(verifier.board,
                                                                 newShotMap)]]
  /\ UNCHANGED verifierRest

SpecAllSunk == VerifierInit /\ [][\E c \in NextHits : RecordHit(c)]_vars

(***************************************************************************)
(* Properties of boardProver.ts                                            *)
(***************************************************************************)
\* The cells of a list of ships in placement order.
RECURSIVE CellsFrom(_, _)
CellsFrom(fleet, k) ==
  IF k > Len(fleet) THEN <<>>
  ELSE [i \in 1..fleet[k].size |-> ShipCell(fleet[k], i - 1)] \o CellsFrom(fleet, k + 1)

InGrid(c) == c[1] \in 0..9 /\ c[2] \in 0..9

\* The k-th cell lies outside the grid or on a cell placed before it.
Violating(cells, k) ==
  ~InGrid(cells[k]) \/ \E j \in 1..(k - 1) : cells[j] = cells[k]

\* A fleet of sizes {5,4,3,3,2}, in bounds, no two ships on one cell.
ValidFleet(fleet) ==
  LET sizes == [k \in 1..Len(fleet) |-> fleet[k].size]
      cells == CellsFrom(fleet, 1)
  IN /\ Len(fleet) = 5
     /\ CountOf(sizes, 5) = 1 /\ CountOf(sizes, 4) = 1
     /\ CountOf(sizes, 3) = 2 /\ CountOf(sizes, 2) = 1
     /\ \A k \in 1..Len(cells) : ~Violating(cells, k)

\* For a valid fleet createBoard returns a board, validateBoard accepts it,
\* and the grid has n occupied cells.
ValidFleetBuilds(n) ==
  ValidFleet(placements) =>
    /\ created.pc = "done" =>
         /\ created.result.ok
         /\ CountShipCells(created.result.board.grid) = n
         /\ CountShipCells(created.result.board.grid)
              = SumFrom([k \in 1..Len(placements) |-> placements[k].size], 1)
    /\ validated.pc = "done" => validated.result.ok

\* C19, as amended: for every valid fleet (sizes {5,4,3,3,2}, in bounds,
\* not overlapping) createBoard followed by validateBoard succeeds and the
\* grid has as many occupied cells as the ship sizes add up to, which is 17.
ValidFleetHasSeventeenCells == ValidFleetBuilds(17)

\* C19, as stated: the same with 18 occupied cells.
ValidFleetHasEighteenCells == ValidFleetBuilds(18)

\* C19's case: a valid fleet went through createBoard and validateBoard.
ValidFleetValidated ==
  /\ ValidFleet(placements)
  /\ created.pc = "done" /\ created.result.ok
  /\ validated.pc = "done" /\ validated.result.ok

\* C20: when some cell of the list is outside the grid (on any side) or on
\* a cell of an earlier ship, createBoard throws, and the error is the
\* out-of-bounds error or the overlap error of the first such cell in
\* placement order.
FirstViolationReported ==
  LET cells == CellsFrom(placements, 1)
      bad == {k \in 1..Len(cells) : Violating(cells, k)}
  IN (created.pc = "done" /\ bad # {}) =>
       LET first == CHOOSE k \in bad : \A j \in bad : k <= j
       IN /\ ~created.result.ok
          /\ created.result.error = IF InGrid(cells[first]) THEN "overlap"
                                    ELSE "out_of_bounds"
          /\ <<created.result.x, created.result.y>> = cells[first]

\* The cells a ship covers.
Footprint(ship) == {ShipCell(ship, i) : i \in 0..(ship.size - 1)}

\* Two cells are the same cell or 8-neighbours.
Adjacent(c, d) ==
  /\ c[1] - d[1] \in -1..1
  /\ c[2] - d[2] \in -1..1

\* No two ships of the list share a cell or touch, diagonals included.
NoTouch(fleet) ==
  \A a, b \in 1..Len(fleet) :
    a # b => \A c \in Footprint(fleet[a]), d \in Footprint(fleet[b]) : ~Adjacent(c, d)

\* The grid is 1 exactly on the cells some ship of the list covers.
GridIsUnion(board) ==
  \A x, y \in 0..(BOARD_SIZE - 1) :
    (board.grid[y + 1][x + 1] = 1)
      <=> \E k \in 1..Len(board.ships) : <<x, y>> \in Footprint(board.ships[k])

\* C21: every board that createBoard returned and validateBoard accepted
\* has no two ships sharing a cell or touching, diagonals included, and a
\* grid that is exactly the union of the ship footprints.
AcceptedBoardsKeepApart ==
  (validated.pc = "done" /\ validated.result.ok) =>
    /\ NoTouch(created.result.board.ships)
    /\ GridIsUnion(created.result.board)

\* The sizes of the list are exactly the multiset {5,4,3,3,2}.
StandardSizes(fleet) ==
  LET sizes == [k \in 1..Len(fleet) |-> fleet[k].size]
  IN /\ Len(fleet) = 5
     /\ CountOf(sizes, 5) = 1 /\ CountOf(sizes, 4) = 1
     /\ CountOf(sizes, 3) = 2 /\ CountOf(sizes, 2) = 1

\* How many cells the ships of the list cover.
CoveredCells(fleet) ==
  Cardinality(UNION {Footprint(fleet[k]) : k \in 1..Len(fleet)})

\* C22: validateBoard throws the composition error (or the ship-count
\* error) unless the sizes are exactly {5,4,3,3,2}, throws the grid-mismatch
\* error when the grid has another number of occupied cells than the ship
\* list covers, and returns true in every other case.
ValidateBoardOutcomes ==
  checked.pc = "done" =>
    IF ~StandardSizes(placements)
    THEN ~checked.result.ok /\ checked.result.error \in {"composition", "ship_count"}
    ELSE IF CountShipCells(checked.grid) # CoveredCells(placements)
    THEN ~checked.result.ok /\ checked.result.error = "grid_mismatch"
    ELSE checked.result.ok

RandomPlacementRestartsWhole ==
  /\ [](randomRun.pc = "placing" => randomRun.attempts <= 100)
  /\ [](randomRun.pc = "returned" =>
          randomRun.result.ok /\ Len(randomRun.result.board.ships) = 5)
  /\ [][(randomRun.pc = "placing" /\ randomRun'.pc = "placing"
         /\ randomRun'.restarts > randomRun.restarts) =>
          /\ randomRun.attempts = 100
          /\ randomRun.ships # <<>>
          /\ randomRun'.ships = <<>>
          /\ randomRun'.tempGrid = EmptyGrid
          /\ randomRun'.attempts = 0]_vars

\* C24's case: a ship used up its attempts, the placement was started over
\* and the second run returned a board.
RandomBoardAfterRestart ==
  /\ randomRun.pc = "returned"
  /\ randomRun.restarts > 0
  /\ randomRun.result.ok

\* C25: every board the ShipPlacement component hands to onComplete has
\* five ships of sizes {5,4,3,3,2} and is accepted by validateBoard.
CompletedBoardIsStandard ==
  completedBoard # NoBoard =>
    /\ StandardSizes(completedBoard.ships)
    /\ validateBoard(completedBoard).ok

\* The grid is the union of the footprints, every ship lies in the grid
\* and no two ships share a cell or touch.
BoardInvariant(b) ==
  /\ GridIsUnion(b)
  /\ \A k \in 1..Len(b.ships) : \A c \in Footprint(b.ships[k]) : InGrid(c)
  /\ NoTouch(b.ships)

DifferInOneCell(g1, g2) ==
  Cardinality({rc \in (1..BOARD_SIZE) \X (1..BOARD_SIZE) :
                 g1[rc[1]][rc[2]] # g2[rc[1]][rc[2]]}) = 1

\* C27: generateBoardCommitment is deterministic, and two calls whose
\* boards differ in a single cell or whose salts differ, both returning a
\* digest, return different digests.
CommitmentBindsCellsAndSalt ==
  \A i, j \in 1..Len(committed) :
    LET a == committed[i]
        b == committed[j]
    IN /\ (a.board = b.board /\ a.salt = b.salt) => a.result = b.result
       /\ (/\ DifferInOneCell(a.board.grid, b.board.grid) \/ a.salt # b.salt
           /\ a.result.ok /\ b.result.ok)
            => a.result.value # b.result.value

\* The part of C27 about the cells: two calls whose boards differ in a
\* single cell, both returning a digest, return different digests.
CommitmentBindsCells ==
  \A i, j \in 1..Len(committed) :
    LET a == committed[i]
        b == committed[j]
    IN (/\ DifferInOneCell(a.board.grid, b.board.grid)
        /\ a.result.ok /\ b.result.ok)
         => a.result.value # b.result.value

\* C28: in every circuit input built, for board placement, shot result
\* or game end, the 100 cells are the grid flattened row by row
\* (cells[y*10+x] = grid[y][x], each 0 or 1), they are the sequence
\* serializeBoard puts into the commitment of the same input, and that
\* commitment is the one computed from the board and the salt of the call.
CircuitCellsAreSerializedBoard ==
  (circuitInput.pc = "done" /\ circuitInput.result.ok) =>
    LET input == circuitInput.result.input
        grid == circuitInput.board.grid
    IN /\ Len(input.cells) = 100
       /\ \A x, y \in 0..9 :
            /\ input.cells[y * 10 + x + 1] = grid[y + 1][x + 1]
            /\ input.cells[y * 10 + x + 1] \in {0, 1}
       /\ input.cells = serializeBoard(circuitInput.board)
       /\ input.salt = circuitInput.salt
       /\ input.board_commitment =
            << "keccak256", input.cells, formatBytes32String(input.salt).value >>
       /\ input.board_commitment =
            generateBoardCommitment(circuitInput.board, circuitInput.salt).value

\* C28's case: an input of the named circuit was built for a board
\* whose grid differs from its transpose.
CircuitInputBuilt(circuit) ==
  /\ circuitInput.pc = "done"
  /\ circuitInput.result.ok
  /\ circuitInput.result.input.circuit = circuit
  /\ \E x, y \in 0..9 : circuitInput.board.grid[y + 1][x + 1]
                          # circuitInput.board.grid[x + 1][y + 1]

GameEndInputBuilt == CircuitInputBuilt("GAME_END")

BoardPlacementInputBuilt == CircuitInputBuilt("BOARD_PLACEMENT")

ShotResultInputBuilt == CircuitInputBuilt("SHOT_RESULT")

\* C29: checkShotResult fails with the out-of-bounds error for every
\* coordinate outside the grid and otherwise, on a board built by
\* createBoard, returns true exactly when the footprint of a ship of
\* board.ships covers the coordinate; the call changes neither the board
\* nor any other state.
CheckShotResultReadsShips ==
  /\ [](verifier.isHit.pc = "done" =>
          LET x == verifier.isHit.x
              y == verifier.isHit.y
              result == verifier.isHit.result
          IN IF InBounds(x, y)
             THEN result = [ok |-> TRUE, value |-> ShipCovers(verifier.board, x, y)]
             ELSE result = [ok |-> FALSE, error |-> "shot_out_of_bounds"])
  /\ [][/\ verifier'.board = verifier.board
        /\ verifier'.shotMap = verifier.shotMap
        /\ verifier'.allSunk = verifier.allSunk
        /\ UNCHANGED verifierRest]_vars

\* C29's case: the call returned true for a cell whose mirror image across
\* the diagonal is water.
ShotOnShipReported ==
  /\ verifier.isHit.pc = "done"
  /\ InBounds(verifier.isHit.x, verifier.isHit.y)
  /\ verifier.isHit.result.value
  /\ verifier.board.grid[verifier.isHit.x + 1][verifier.isHit.y + 1] = 0

\* checkAllShipsSunk returned true exactly when the number of recorded hits
\* equals the number of ship cells of the board.
SunkIsCountEquality ==
  verifier.allSunk.pc = "done" =>
    (verifier.allSunk.result
       <=> Len(verifier.shotMap.hits)
             = Cardinality(UNION {Footprint(verifier.board.ships[k]) :
                                    k \in 1..Len(verifier.board.ships)}))

\* C30, with the cell count of the fleet: checkAllShipsSunk returns true
\* exactly when the number of recorded hits equals the number of ship
\* cells; for a {5,4,3,3,2} board (17 ship cells) it is false after 16
\* recorded hits and true once the 17th distinct hit is recorded.
AllSunkAtSeventeenHits ==
  /\ SunkIsCountEquality
  /\ (verifier.allSunk.pc = "done" /\ StandardSizes(verifier.board.ships)) =>
       /\ Len(verifier.shotMap.hits) = 16 => ~verifier.allSunk.result
       /\ (Len(verifier.shotMap.hits) = 17 /\ Cardinality(DistinctHits) = 17)
            => verifier.allSunk.result

\* C30 as stated: for a {5,4,3,3,2} board (18 ship cells) the function is
\* false after 17 recorded hits and true once the 18th distinct hit is
\* recorded.
AllSunkAtEighteenHits ==
  /\ SunkIsCountEquality
  /\ (verifier.allSunk.pc = "done" /\ StandardSizes(verifier.board.ships)) =>
       /\ Len(verifier.shotMap.hits) = 17 => ~verifier.allSunk.result
       /\ (Len(verifier.shotMap.hits) = 18 /\ Cardinality(DistinctHits) = 18)
            => verifier.allSunk.result

\* C30's case: every ship cell of a {5,4,3,3,2} board was hit once and the
\* function returned true.
SeventeenthHitSinksFleet ==
  /\ verifier.allSunk.pc = "done"
  /\ StandardSizes(verifier.board.ships)
  /\ Len(verifier.shotMap.hits) = 17
  /\ Cardinality(DistinctHits) = 17
  /\ verifier.allSunk.result

\* The call recorded is one of generateGameEndProof.
GameEndCalled ==
  circuitInput.pc = "done" /\ circuitInput.call = "generateGameEndProof"

\* C31: generateGameEndProof fails with the incomplete-sink error, and
\* builds no circuit input to hand to the prover, whenever the number of
\* recorded hits differs from the number of ship cells of the board, that
\* is whenever checkAllShipsSunk(board, shotMap) is false.
GameEndRefusedUnlessSunk ==
  (/\ GameEndCalled
   /\ Len(circuitInput.args[1].hits)
        # Cardinality(UNION {Footprint(circuitInput.board.ships[k]) :
                               k \in 1..Len(circuitInput.board.ships)}))
    => circuitInput.result = [ok |-> FALSE, error |-> "not_all_sunk"]

\* C31's case: the function was called with a salt the encoder accepts and
\* a shot map that lacks one hit, and it threw.
GameEndRefusedOneHitShort ==
  /\ GameEndCalled
  /\ circuitInput.salt = ShortSalt
  /\ Len(circuitInput.args[1].hits) > 0
  /\ ~checkAllShipsSunk(circuitInput.board, circuitInput.args[1])
  /\ ~circuitInput.result.ok

\* C32: in the game-end circuit input, shot_history[y*10+x] is 1 exactly
\* for the cells fired upon according to the shot map, hits and misses
\* alike, and 0 for every other cell.
ShotHistoryMarksEveryShot ==
  (GameEndCalled /\ circuitInput.result.ok) =>
    LET shots == circuitInput.args[1]
        fired == Coords(shots.hits) \cup Coords(shots.misses)
    IN \A x, y \in 0..(BOARD_SIZE - 1) :
         circuitInput.result.input.shot_history[y * 10 + x + 1]
           = (IF << x, y >> \in fired THEN 1 ELSE 0)

\* The part of C32 about the hits: shot_history[y*10+x] is 1 exactly for
\* the cells recorded as hits.
ShotHistoryMarksHits ==
  (GameEndCalled /\ circuitInput.result.ok) =>
    \A x, y \in 0..(BOARD_SIZE - 1) :
      circuitInput.result.input.shot_history[y * 10 + x + 1]
        = (IF << x, y >> \in Coords(circuitInput.args[1].hits) THEN 1 ELSE 0)

(***************************************************************************)
(* The game page's events effect: how often and whether an event is        *)
(* applied                                                                 *)
(***************************************************************************)
\* A shot event is the last element of the events list.
ShotEventDelivered == latestEvent.type \in {"shot_fired", "shot_result"}

\* The relay delivers messages up to its first shot event and none after.
RelayUntilShot(msgs) == ~ShotEventDelivered /\ Relay(msgs)

OneShotMsgs ==
  {SetupSnapshot}
  \cup {ShotFiredMsg(Opp, c[1], c[2]) : c \in PageCoords}
  \cup {ShotResultMsg(p, c[1], c[2], h) :
          p \in {Me, Opp}, c \in PageCoords, h \in BOOLEAN}

\* A game in which the relay delivers a single shot event: board
\* submission, the events effect and handleOpponentShot.
NextOneShot ==
  \/ RelayUntilShot(OneShotMsgs)
  \/ Commit(MaxShots)
  \/ HandleBoardComplete(BoardA, ShortSalt)
  \/ BoardSteps
  \/ OppShotSteps(MaxShots)

SpecOneShot == Init /\ [][NextOneShot]_vars

\* C33: each relay event is applied at most once.  With a single shot
\* event delivered, each shot map holds at most one entry, and
\* handleOpponentShot is not started again after an invocation has
\* recorded the shot.
ShotEventAppliedOnce ==
  /\ [](/\ Len(shotsAtOpponent.hits) + Len(shotsAtOpponent.misses) <= 1
        /\ Len(shotsAtPlayer.hits) + Len(shotsAtPlayer.misses) <= 1)
  /\ [][OpponentShotStarted => shotsAtPlayer = createEmptyShotMap]_vars

\* The effects run after every render, and nothing else is required to
\* happen: the relay need not send anything.
SpecOwnShotsFair == SpecOwnShots /\ WF_vars(Commit(MaxShots))

\* C34: no relay event is lost.  Once the local player's shot_result with
\* a hit is the last element of the events list, the hit is eventually in
\* shotsAtOpponent.
OwnHitEventuallyApplied ==
  (\E c \in PageCoords : latestEvent = ShotResultMsg(Me, c[1], c[2], TRUE))
    ~> (Len(shotsAtOpponent.hits) > 0)

\* The effects run after every render and every promise of
\* handleBoardComplete and handleOpponentShot settles; the relay need not
\* send anything.
SpecOppShotsFair ==
  /\ SpecOppShots
  /\ WF_vars(Commit(MaxShots))
  /\ WF_vars(BoardSteps)
  /\ WF_vars(OppShotSteps(MaxShots))

\* C37: after every opponent shot_fired event isProcessingShot eventually
\* returns to false.
ProcessingShotEventuallyCleared == isProcessingShot ~> ~isProcessingShot

(***************************************************************************)
(* Properties of the channel                                               *)
(***************************************************************************)
\* C35: while the most recently created WebSocket is open, isConnected is
\* true and the heartbeat interval started for that socket is active.
NewestSocketStaysConnected ==
  (Len(sockets) > 0 /\ sockets[Len(sockets)] = "OPEN") =>
    /\ isConnected
    /\ \E t \in 1..Len(timers) : timers[t].ws = Len(sockets) /\ timers[t].active

(***************************************************************************)
(* Board submission with the Done button pressed more than once            *)
(***************************************************************************)
MaxBoardClicks == 2

\* Two salts the encoder accepts, standing for two values of generateSalt.
ClickSalts == {ShortSalt, SubSeq(GeneratedSalt, 2, 32)}

\* ShipPlacement stays rendered while a submission is running (page.tsx
\* lines 382-395), so Done can be pressed again: a SETUP snapshot, the
\* effects, and handleBoardComplete invoked up to MaxBoardClicks times for
\* the same board.
NextBoardClicks ==
  \/ Relay({SetupSnapshot})
  \/ Commit(MaxShots)
  \/ \E salt \in ClickSalts : HandleBoardCompleteUpTo(BoardA, salt, MaxBoardClicks)
  \/ \E i \in 1..MaxBoardClicks, ok \in BOOLEAN :
       \/ BoardProofResolved(i, ok)
       \/ BoardLedgerResolved(i, ok)
       \/ BoardRelayResolved(i, ok)

SpecBoardClicks == Init /\ [][NextBoardClicks]_vars

StoredCommitmentIsPublished ==
  \A i \in 1..Len(boardCalls) :
    boardCalls[i].pc = "session_submit" =>
      /\ playerBoardCommitment = boardCalls[i].commitment
      /\ playerBoardSalt = boardCalls[i].salt

\* C38: every salt generateSalt produces fits the bytes32 string encoding,
\* so generateBoardCommitment returns a digest for every generated salt
\* and every board.
GeneratedSaltIsEncoded ==
  \A i \in 1..Len(committed) :
    committed[i].salt \in GeneratedSalts => committed[i].result.ok

\* What holds instead: a generated salt has 32 characters, one more than
\* the encoder takes, and every call with one throws.
GeneratedSaltIsRejected ==
  /\ \A salt \in GeneratedSalts : Len(salt) = 32
  /\ \A i \in 1..Len(committed) :
       committed[i].salt \in GeneratedSalts =>
         committed[i].result = [ok |-> FALSE, error |-> "bytes32_too_long"]

\* ---------------------------------------------------------------------
\* InviteModal (src/components/modals/InviteModal.tsx)
\* ---------------------------------------------------------------------

\* At most this many createInvite requests are followed.
MaxInviteCalls == 3

\* At most this many "Copied!" timeouts are armed at once.
MaxCopyTimers == 1

\* The wallet addresses the parent passes as playerAddress: none, and one.
InviteAddresses == {NoAddress, "0xA11ce"}

WalletNotConnected == "Wallet not connected"
FailedToCreateInvite == "Failed to create game invitation"

\* The link built from the code of the invitation that request i returned
\* (line 44).
InviteLinkOf(i) ==
  << "/invite/code1", "/invite/code2", "/invite/code3", "/invite/code4" >>[i]

\* The dependency arrays of the auto-create effect (line 132) and of the
\* reset effect (line 141), as rendered.
CreateDeps(m) == << m.isOpen, m.inviteLink, m.isCreating >>
ResetDeps(m) == m.isOpen

\* An effect has a changed dependency: React runs it after the render and
\* before any later event, timer or response is handled.
ModalEffectsPending ==
  \/ CreateDeps(inviteModal) # inviteModal.createDeps
  \/ ResetDeps(inviteModal) # inviteModal.resetDeps

inviteRest == << pageVars, proverVars, channelVars, builderRest,
                 placementBoard, shipsToPlace, placingShip, hoverPosition,
                 isHorizontal, completedBoard, utilBoard, utilAdded,
                 committed, circuitInput, verifier >>

\* handleCreateInvite (lines 30-59) up to its await, called by the effect
\* or by the Try Again button: without a wallet it sets the error and
\* returns; otherwise it sets isCreating, clears the error and sends the
\* request.
HandleCreateInvite(m, by) ==
  IF m.playerAddress = NoAddress
    THEN [m EXCEPT !.error = WalletNotConnected]
    ELSE [m EXCEPT !.isCreating = TRUE,
                   !.error = Null,
                   !.calls = Append(@, [by |-> by, pc |-> "pending"])]

\* The auto-create effect would call handleCreateInvite (lines 129-131).
AutoCreates(m) ==
  /\ CreateDeps(m) # m.createDeps
  /\ m.isOpen
  /\ m.inviteLink = Null
  /\ ~m.isCreating

\* The reset effect would clear the state (lines 136-140).
Resets(m) == ResetDeps(m) # m.resetDeps /\ ~m.isOpen

\* The parent opens the modal for a wallet address.
OpenModal(address) ==
  /\ ~ModalEffectsPending
  /\ ~inviteModal.isOpen
  /\ inviteModal' = [inviteModal EXCEPT !.isOpen = TRUE,
                                        !.playerAddress = address]
  /\ UNCHANGED inviteRest

\* The parent passes another wallet address while the modal is open.
WalletChanges(address) ==
  /\ ~ModalEffectsPending
  /\ inviteModal.isOpen
  /\ address # inviteModal.playerAddress
  /\ inviteModal' = [inviteModal EXCEPT !.playerAddress = address]
  /\ UNCHANGED inviteRest

\* onClose, from the Close button, the Escape key or a click outside
\* (lines 90-125, 234-239): the parent closes the modal.
CloseModal ==
  /\ ~ModalEffectsPending
  /\ inviteModal.isOpen
  /\ inviteModal' = [inviteModal EXCEPT !.isOpen = FALSE]
  /\ UNCHANGED inviteRest

\* The effects of lines 127-141 after a render that changed a dependency:
\* the auto-create effect calls handleCreateInvite when the modal is open
\* with no link and nothing being created; the reset effect clears link,
\* error and copy mark when the modal is closed.
ModalCommit ==
  /\ ModalEffectsPending
  /\ LET m == inviteModal
         ran == [m EXCEPT !.createDeps = CreateDeps(m),
                          !.resetDeps = ResetDeps(m)]
         afterCreate == IF AutoCreates(m)
                          THEN HandleCreateInvite(ran, "effect")
                          ELSE ran
         afterReset == IF Resets(m)
                         THEN [afterCreate EXCEPT !.inviteLink = Null,
                                                  !.error = Null,
                                                  !.copySuccess = FALSE]
                         ELSE afterCreate
     IN /\ Len(afterReset.calls) <= MaxInviteCalls
        /\ inviteModal' = afterReset
  /\ UNCHANGED inviteRest

\* The Try Again button, shown with the error (lines 155-167).
TryAgain ==
  /\ ~ModalEffectsPending
  /\ inviteModal.isOpen
  /\ inviteModal.error # Null
  /\ LET clicked == HandleCreateInvite(inviteModal, "click")
     IN /\ Len(clicked.calls) <= MaxInviteCalls
        /\ inviteModal' = clicked
  /\ UNCHANGED inviteRest

\* createInvite resolves (lines 41-52, 56-58): the link is stored and
\* isCreating cleared.
CreateInviteResolves(i) ==
  /\ ~ModalEffectsPending
  /\ i \in 1..Len(inviteModal.calls)
  /\ inviteModal.calls[i].pc = "pending"
  /\ inviteModal' = [inviteModal EXCEPT !.inviteLink = InviteLinkOf(i),
                                        !.isCreating = FALSE,
                                        !.calls[i].pc = "resolved"]
  /\ UNCHANGED inviteRest

\* createInvite rejects (lines 53-58): the error is set and isCreating
\* cleared.
CreateInviteRejects(i) ==
  /\ ~ModalEffectsPending
  /\ i \in 1..Len(inviteModal.calls)
  /\ inviteModal.calls[i].pc = "pending"
  /\ inviteModal' = [inviteModal EXCEPT !.error = FailedToCreateInvite,
                                        !.isCreating = FALSE,
                                        !.calls[i].pc = "rejected"]
  /\ UNCHANGED inviteRest

\* The Copy button, shown with the link (lines 62-88, 170-197): the copy
\* mark is set and a three-second timeout armed.
HandleCopyInviteLink ==
  /\ ~ModalEffectsPending
  /\ inviteModal.isOpen
  /\ inviteModal.error = Null
  /\ ~inviteModal.isCreating
  /\ inviteModal.inviteLink # Null
  /\ inviteModal.copyTimers < MaxCopyTimers
  /\ inviteModal' = [inviteModal EXCEPT !.copySuccess = TRUE,
                                        !.copyTimers = @ + 1]
  /\ UNCHANGED inviteRest

\* The timeout of lines 70-72 fires.
CopyTimeout ==
  /\ ~ModalEffectsPending
  /\ inviteModal.copyTimers > 0
  /\ inviteModal' = [inviteModal EXCEPT !.copySuccess = FALSE,
                                        !.copyTimers = @ - 1]
  /\ UNCHANGED inviteRest

NextInviteModal ==
  \/ \E address \in InviteAddresses : OpenModal(address)
  \/ \E address \in InviteAddresses : WalletChanges(address)
  \/ CloseModal
  \/ ModalCommit
  \/ TryAgain
  \/ \E i \in 1..MaxInviteCalls : CreateInviteResolves(i)
  \/ \E i \in 1..MaxInviteCalls : CreateInviteRejects(i)
  \/ HandleCopyInviteLink
  \/ CopyTimeout

SpecInviteModal == Init /\ [][NextInviteModal]_vars

\* The auto-create effect has run for this opening of the modal, and the
\* error on show is that of a failed createInvite.
ShowsFailedInvite ==
  /\ inviteModal.isOpen
  /\ inviteModal.createDeps[1]
  /\ inviteModal.error = FailedToCreateInvite

\* C39: when createInvite fails while the modal is open, the modal stays
\* in its error state and sends no further createInvite request until the
\* user clicks Try Again (or closes and reopens the modal): every request
\* sent while the failure is on show comes from the Try Again button.
FailedInviteWaitsForTryAgain ==
  [][(ShowsFailedInvite /\ Len(inviteModal'.calls) > Len(inviteModal.calls))
       => inviteModal'.calls[Len(inviteModal'.calls)].by = "click"]_vars

\* A request the effect sent after an earlier request of the same opening
\* was rejected.
InviteRetriedByEffect ==
  \E i \in 1..Len(inviteModal.calls) : \E j \in 1..Len(inviteModal.calls) :
    /\ i < j
    /\ inviteModal.calls[i].pc = "rejected"
    /\ inviteModal.calls[j].by = "effect"
====
